---- MODULE Spec2Model ----
(***************************************************************************)
(* A model of XDE, the XED based disassembly engine (src/xde).             *)
(*                                                                         *)
(* The engine (xde/disassembler.py) is modelled as a state machine over    *)
(* its five stores: the shadow memory (xde/em_shadow_memory.py), the code  *)
(* and data cross reference graphs, the basic block map and the CFG        *)
(* (xde/em_graph.py).  The image provider and the instruction decoder are  *)
(* external: an image is a record holding the sections, the entry, exit,   *)
(* function and relocation tables, the bytes of the loaded sections and    *)
(* the table that says what the decoder returns at every address.          *)
(***************************************************************************)
EXTENDS Integers, Sequences, FiniteSets, TLC

VARIABLES
    image,          \* the loaded executable and what the decoder says about it
    shadow,         \* EMShadowMemory: memory_ranges and the mark bytes
    code_xrefs,     \* EMGraph of code cross references
    data_xrefs,     \* EMGraph of data cross references
    basic_blocks,   \* map from start address to BasicBlock
    cfg,            \* EMGraph holding the CFG
    decoder,        \* the decoder's cursor
    pc,             \* position of disassemble() in its phases
    ret,            \* phase that called _do_recursive_disassembly()
    todo,           \* elements the current phase's for loop has not visited
    scan,           \* address cursor of the current phase's xrange loop
    stack,          \* local of _do_recursive_disassembly()
    start_address,  \* local of _do_recursive_disassembly()
    error,          \* local of _do_recursive_disassembly()
    done,           \* local of _disassemble_deferred()
    chain,          \* arguments of the active _analyze_relocation() frames
    exc,            \* the exception that ended disassemble(), if any
    run,            \* which call of disassemble() this is
    first,          \* what the first call of disassemble() produced
    call,           \* the last call of the public API and what it returned
    decoded,        \* addresses of the instructions disassembled so far
    slots           \* the slots the jump-table walker has read, in order

vars == <<image, shadow, code_xrefs, data_xrefs, basic_blocks, cfg, decoder,
          pc, ret, todo, scan, stack, start_address, error, done, chain,
          exc, run, first, call, decoded, slots>>

(***************************************************************************)
(* Helpers                                                                 *)
(***************************************************************************)
Min(S) == CHOOSE x \in S : \A y \in S : x <= y

Max(S) == CHOOSE x \in S : \A y \in S : x >= y

None == "None"

\* None where the source has an address or None
NoAddress == 0 - 1

\* F(x) with x evaluated once, as a statement evaluates its operands
Once(F(_), x) == CHOOSE y \in {F(v) : v \in {x}} : TRUE

\* F(x, y) with x and y evaluated once
Once2(F(_, _), x, y) == CHOOSE z \in {F(v, w) : v \in {x}, w \in {y}} : TRUE

(***************************************************************************)
(* xde/em_shadow_memory.py                                                 *)
(*                                                                         *)
(* A mark byte is modelled as the set of the names of its bits: m & b == b *)
(* is b \subseteq m, m | b is m \cup b and m & ~b is m \ b.                *)
(***************************************************************************)
M_NONE == {}

M_ANALYZED == {"ANALYZED"}

M_CODE == {"CODE"}

M_BASIC_BLOCK_LEADER == {"BASIC_BLOCK_LEADER"}

M_FUNCTION == {"FUNCTION"}

M_DATA == {"DATA"}

M_HEAD == {"HEAD"}

M_RELOCATED == {"RELOCATED"}

M_RELOCATED_LEAF == {"RELOCATED_LEAF"}

\* sorted(list of pairs): insertion sort on (start, end)
RECURSIVE SortedInsert(_, _)
SortedInsert(s, r) ==
    IF s = <<>> THEN <<r>>
    ELSE IF r[1] < s[1][1] \/ (r[1] = s[1][1] /\ r[2] <= s[1][2])
         THEN <<r>> \o s
         ELSE <<s[1]>> \o SortedInsert(Tail(s), r)

RECURSIVE sorted(_)
sorted(s) ==
    IF s = <<>> THEN <<>> ELSE SortedInsert(sorted(Tail(s)), s[1])

\* The inner for loop of _merge_memory_ranges(): the first element of
\* merged, from index i on, that the new range touches is widened; 0 when
\* the loop runs into its else clause.
RECURSIVE MergeIndex(_, _, _)
MergeIndex(merged, new, i) ==
    IF i > Len(merged) THEN 0
    ELSE IF (new[1] <= merged[i][1] /\ merged[i][1] <= new[2])
            \/ (new[1] <= merged[i][2] + 1 /\ merged[i][2] + 1 <= new[2])
         THEN i
         ELSE MergeIndex(merged, new, i + 1)

RECURSIVE MergeLoop(_, _)
MergeLoop(merged, memory_ranges) ==
    IF memory_ranges = <<>> THEN merged
    ELSE LET new == memory_ranges[1]
             i == MergeIndex(merged, new, 1)
         IN  IF i = 0
             THEN MergeLoop(Append(merged, new), Tail(memory_ranges))
             ELSE MergeLoop([merged EXCEPT ![i] =
                                <<Min({new[1], merged[i][1]}),
                                  Max({new[2], merged[i][2]})>>],
                            Tail(memory_ranges))

_merge_memory_ranges(memory_ranges) == sorted(MergeLoop(<<>>, memory_ranges))

\* An EMList of end - start + 1 cells, all M_NONE, indexed from 0.
_make_shadow_memory(memory_range) ==
    [j \in 0 .. (memory_range[2] - memory_range[1]) |-> M_NONE]

\* EMShadowMemory.__init__
EMShadowMemory(memory_ranges) ==
    LET merged == _merge_memory_ranges(memory_ranges)
    IN  [memory_ranges |-> merged,
         shadows |-> [i \in DOMAIN merged |-> _make_shadow_memory(merged[i])]]

RangesOf(sh, address) ==
    {i \in DOMAIN sh.memory_ranges :
        sh.memory_ranges[i][1] <= address /\ address <= sh.memory_ranges[i][2]}

\* _get_shadow_memory_coordinates() raises RuntimeError iff not Covered.
Covered(sh, address) == RangesOf(sh, address) # {}

_get_shadow_memory_coordinates(sh, address) ==
    LET i == Min(RangesOf(sh, address))
    IN  <<i, sh.memory_ranges[i][2] - address>>

ShadowLen(sh, i) == sh.memory_ranges[i][2] - sh.memory_ranges[i][1] + 1

\* The engine's stores are threaded through the operations of one handler
\* as a record st; st.exc is the exception that is propagating, if any,
\* and an operation reached while one propagates is not executed.
Raise(st, e) == [st EXCEPT !.exc = e]

Ok(st) == st.exc = None

\* _mark() storing the mask where it should OR it into the byte
_mark_overwriting(st0, address, mark) ==
    Once(LAMBDA st :
        IF ~Ok(st) THEN st
        ELSE IF ~Covered(st.shadow, address) THEN Raise(st, "RuntimeError")
        ELSE LET c == _get_shadow_memory_coordinates(st.shadow, address)
             IN  [st EXCEPT !.shadow.shadows[c[1]][c[2]] = mark],
        st0)

_mark(st0, address, mark) ==
    Once(LAMBDA st :
        IF ~Ok(st) THEN st
        ELSE IF ~Covered(st.shadow, address) THEN Raise(st, "RuntimeError")
        ELSE LET c == _get_shadow_memory_coordinates(st.shadow, address)
             IN  [st EXCEPT !.shadow.shadows[c[1]][c[2]] = @ \cup mark],
        st0)

_unmark(st0, address, mark) ==
    Once(LAMBDA st :
        IF ~Ok(st) THEN st
        ELSE IF ~Covered(st.shadow, address) THEN Raise(st, "RuntimeError")
        ELSE LET c == _get_shadow_memory_coordinates(st.shadow, address)
             IN  [st EXCEPT !.shadow.shadows[c[1]][c[2]] = @ \ mark],
        st0)

_is_marked(sh, address, mark) ==
    LET c == _get_shadow_memory_coordinates(sh, address)
    IN  mark \subseteq sh.shadows[c[1]][c[2]]

_mark_range(st0, address, length, mark) ==
    Once(LAMBDA st :
        IF ~Ok(st) THEN st
        ELSE IF ~Covered(st.shadow, address) THEN Raise(st, "RuntimeError")
        ELSE LET c == _get_shadow_memory_coordinates(st.shadow, address)
                 limit == Min({c[2] + length, ShadowLen(st.shadow, c[1])})
             IN  [st EXCEPT !.shadow.shadows[c[1]] =
                     [j \in DOMAIN @ |->
                         IF c[2] <= j /\ j < limit THEN @[j] \cup mark ELSE @[j]]],
        st0)

_unmark_range(st0, address, length, mark) ==
    Once(LAMBDA st :
        IF ~Ok(st) THEN st
        ELSE IF ~Covered(st.shadow, address) THEN Raise(st, "RuntimeError")
        ELSE LET c == _get_shadow_memory_coordinates(st.shadow, address)
                 limit == Min({c[2] + length, ShadowLen(st.shadow, c[1])})
             IN  [st EXCEPT !.shadow.shadows[c[1]] =
                     [j \in DOMAIN @ |->
                         IF c[2] <= j /\ j < limit THEN @[j] \ mark ELSE @[j]]],
        st0)

\* The while loop of _is_marked_range(), from cell j on.
RECURSIVE MarkedRun(_, _, _, _)
MarkedRun(cells, j0, limit, mark) ==
    Once(LAMBDA j :
        IF j < limit /\ mark \subseteq cells[j]
        THEN 1 + MarkedRun(cells, j + 1, limit, mark)
        ELSE 0,
        j0)

_is_marked_range(sh, address, length, mark) ==
    LET c == _get_shadow_memory_coordinates(sh, address)
        limit == Min({c[2] + length, ShadowLen(sh, c[1])})
    IN  MarkedRun(sh.shadows[c[1]], c[2], limit, mark)

mark_as_analyzed(st, address, length) ==
    _mark_range(st, address, length, M_ANALYZED)

mark_as_code(st, address, length) ==
    _mark_range(_mark(st, address, M_HEAD \cup M_CODE),
                address + 1, length - 1, M_CODE)

mark_as_basic_block_leader(st, address) ==
    _mark(st, address, M_HEAD \cup M_CODE \cup M_BASIC_BLOCK_LEADER)

\* mark_as_function() setting M_FUNCTION alone
mark_as_function_alone(st, address) == _mark(st, address, M_FUNCTION)

mark_as_function(st, address) ==
    _mark(st, address,
          M_HEAD \cup M_CODE \cup M_BASIC_BLOCK_LEADER \cup M_FUNCTION)

mark_as_data(st, address, length) ==
    _mark_range(_mark(st, address, M_HEAD \cup M_DATA),
                address + 1, length - 1, M_DATA)

mark_as_relocated(st, address) == _mark(st, address, M_RELOCATED)

mark_as_relocated_leaf(st, address) == _mark(st, address, M_RELOCATED_LEAF)

\* The is_marked_as_*() queries; those with a length return a count, which
\* the engine uses as a truth value.
is_marked_as_analyzed(sh, address) ==
    _is_marked_range(sh, address, 1, M_ANALYZED) # 0

is_marked_as_code(sh, address) == _is_marked_range(sh, address, 1, M_CODE) # 0

is_marked_as_basic_block_leader(sh, address) ==
    _is_marked(sh, address, M_BASIC_BLOCK_LEADER)

is_marked_as_function(sh, address) == _is_marked(sh, address, M_FUNCTION)

is_marked_as_data(sh, address, length) ==
    _is_marked_range(sh, address, length, M_DATA)

is_marked_as_head(sh, address) == _is_marked(sh, address, M_HEAD)

is_marked_as_relocated(sh, address) == _is_marked(sh, address, M_RELOCATED)

is_marked_as_relocated_leaf(sh, address) ==
    _is_marked(sh, address, M_RELOCATED_LEAF)

\* The mark byte of a covered address, M_NONE elsewhere
MarksAt(sh, address) ==
    IF Covered(sh, address)
    THEN LET c == _get_shadow_memory_coordinates(sh, address)
         IN  sh.shadows[c[1]][c[2]]
    ELSE M_NONE

CoveredAddresses(sh) ==
    UNION {sh.memory_ranges[i][1] .. sh.memory_ranges[i][2] :
             i \in DOMAIN sh.memory_ranges}

(***************************************************************************)
(* xde/em_graph.py                                                         *)
(***************************************************************************)
EmptyMap == [x \in {} |-> {}]

\* EMGraph.__init__
EMGraph ==
    [_graph |-> EmptyMap, _transpose_graph |-> EmptyMap,
     _vertex_attributes |-> EmptyMap, _edge_attributes |-> EmptyMap]

\* d[k] = v on a dictionary
Put(d, k, v) == [x \in DOMAIN d \cup {k} |-> IF x = k THEN v ELSE d[x]]

\* del d[k]
Del(d, k) == [x \in DOMAIN d \ {k} |-> d[x]]

add_vertex(g, vertex) ==
    IF vertex \notin DOMAIN g._graph
    THEN [g EXCEPT !._graph = Put(@, vertex, {}),
                   !._transpose_graph = Put(@, vertex, {}),
                   !._vertex_attributes = Put(@, vertex, EmptyMap)]
    ELSE g

get_successors(g, vertex) ==
    IF vertex \in DOMAIN g._graph THEN g._graph[vertex] ELSE {}

get_predecessors(g, vertex) ==
    IF vertex \in DOMAIN g._transpose_graph
    THEN g._transpose_graph[vertex] ELSE {}

add_edge(g, edge) ==
    LET tail == edge[1]
        head == edge[2]
        g2 == add_vertex(add_vertex(g, tail), head)
    IN  IF head \notin g2._graph[tail]
        THEN [g2 EXCEPT !._graph[tail] = @ \cup {head},
                        !._transpose_graph[head] = @ \cup {tail},
                        !._edge_attributes = Put(@, edge, EmptyMap)]
        ELSE g2

\* _add_attribute() for its effect on the attributes container
_add_attribute(attributes, subject, name, value) ==
    IF subject \in DOMAIN attributes
    THEN Put(attributes, subject, Put(attributes[subject], name, value))
    ELSE attributes

_get_attribute(attributes, subject, name) ==
    IF subject \in DOMAIN attributes /\ name \in DOMAIN attributes[subject]
    THEN attributes[subject][name]
    ELSE None

\* add_edge_attribute() that stores nothing
add_edge_attribute_dropped(g, edge, name, value) == g

add_edge_attribute(g, edge, name, value) ==
    [g EXCEPT !._edge_attributes = _add_attribute(@, edge, name, value)]

get_edge_attribute(g, edge, name) ==
    _get_attribute(g._edge_attributes, edge, name)

get_edges(g) ==
    UNION {{<<v, s>> : s \in g._graph[v]} : v \in DOMAIN g._graph}

(***************************************************************************)
(* The image provider (sex.sex_loader.SexLoader), by its interface.        *)
(*                                                                         *)
(* image.sections is sorted by address; a section is [start_address,       *)
(* end_address) with flags among "l" (loaded), "r", "w" and "x" and        *)
(* image.bytes[a] is the byte at the address a of a section.               *)
(***************************************************************************)
SectionsFor(img, address, length) ==
    {i \in DOMAIN img.sections :
        img.sections[i].start_address <= address
        /\ address + length <= img.sections[i].end_address}

\* loader.get_section_for_address_range(address, length): the index of the
\* section, 0 for None
get_section_for_address_range(img, address, length) ==
    IF SectionsFor(img, address, length) = {} THEN 0
    ELSE Min(SectionsFor(img, address, length))

\* loader.read(address, length): the bytes; <<>> stands for None, which is
\* what the range being in no section gives
read(img, address, length) ==
    IF get_section_for_address_range(img, address, length) = 0 THEN <<>>
    ELSE [k \in 1 .. length |-> img.bytes[address + k - 1]]

\* struct.unpack() of an unsigned little-endian integer
RECURSIVE unpack(_)
unpack(data) ==
    IF data = <<>> THEN 0 ELSE data[1] + 256 * unpack(Tail(data))

(***************************************************************************)
(* xde/cpu.py                                                              *)
(***************************************************************************)
X86_MODE_REAL == "X86_MODE_REAL"

X86_MODE_PROTECTED_32BIT == "X86_MODE_PROTECTED_32BIT"

X86_MODE_PROTECTED_64BIT == "X86_MODE_PROTECTED_64BIT"

\* Disassembler.__init__: the CPU of the target executable
CpuMode(img) ==
    IF img.arch = "i386" THEN X86_MODE_PROTECTED_32BIT
    ELSE X86_MODE_PROTECTED_64BIT

get_program_counter_name(mode) ==
    CASE mode = X86_MODE_REAL -> "XED_REG_IP"
      [] mode = X86_MODE_PROTECTED_32BIT -> "XED_REG_EIP"
      [] OTHER -> "XED_REG_RIP"

\* width_map of _disassemble_normal_instruction()
NativeWidth(mode) ==
    CASE mode = X86_MODE_REAL -> 16
      [] mode = X86_MODE_PROTECTED_32BIT -> 32
      [] OTHER -> 64

\* struct.calcsize(fmt_map[mode]) of _analyze_relocations()
NativeSize(mode) == NativeWidth(mode) \div 8

(***************************************************************************)
(* The decoder (pyxed.Decoder), by its interface.                          *)
(*                                                                         *)
(* image.insns[a] is what the decoder finds at address a: an instruction   *)
(* record, or Invalid where the bytes decode to nothing.  The cursor is    *)
(* [itext, itext_offset, runtime_address], itext being the index of the    *)
(* section whose data the decoder reads (0 before the first use).          *)
(***************************************************************************)
XED_REG_INVALID == "XED_REG_INVALID"

\* An instruction with no operands, as the templates of the images extend it
Insn ==
    [category |-> "XED_CATEGORY_MISC", iform |-> "XED_IFORM_NOP_90",
     iclass |-> "XED_ICLASS_NOP", length |-> 1,
     written_registers |-> {}, memory_operands |-> <<>>,
     immediate_width_bits |-> 0, unsigned_immediate |-> 0,
     branch_displacement |-> 0, far_xfer |-> FALSE, runtime_address |-> 0]

\* Bytes that are no instruction: decode() raises InvalidInstructionError
Invalid == [Insn EXCEPT !.category = "Invalid", !.length = 0]

\* decoder.decode() with the cursor d: [kind, insn, decoder], kind being
\* "insn", "None" (the end of the section's data), "InvalidOffsetError" or
\* "InvalidInstructionError"; an error leaves the cursor where it was.
decode(img, d) ==
    LET section == img.sections[d.itext]
        size == section.end_address - section.start_address
        address == d.runtime_address + d.itext_offset
    IN  IF d.itext_offset = size
        THEN [kind |-> None, insn |-> Invalid, decoder |-> d]
        ELSE IF d.itext_offset < 0 \/ d.itext_offset > size
        THEN [kind |-> "InvalidOffsetError", insn |-> Invalid, decoder |-> d]
        ELSE IF img.insns[address] = Invalid
                \/ d.itext_offset + img.insns[address].length > size
        THEN [kind |-> "InvalidInstructionError", insn |-> Invalid,
              decoder |-> d]
        ELSE [kind |-> "insn",
              insn |-> [img.insns[address] EXCEPT !.runtime_address = address],
              decoder |-> [d EXCEPT !.itext_offset =
                                      @ + img.insns[address].length]]

(***************************************************************************)
(* xde/instruction.py                                                      *)
(***************************************************************************)
get_next_instruction_address(insn) == insn.runtime_address + insn.length

get_written_registers(insn) == insn.written_registers

\* The absolute address of the i-th memory operand, NoAddress if it cannot
\* be computed
get_memory_displacement(insn, mode, i) ==
    LET op == insn.memory_operands[i]
        displacement ==
            IF op.base_reg = get_program_counter_name(mode)
            THEN op.displacement + get_next_instruction_address(insn)
            ELSE IF op.base_reg # XED_REG_INVALID THEN NoAddress
            ELSE op.displacement
    IN  IF op.seg_reg \in {"XED_REG_SS", "XED_REG_FS", "XED_REG_GS"}
        THEN NoAddress
        ELSE displacement

\* The width of a relative branch displacement: 32 bits in the source
\* (the masks 0x80000000 and 0x7fffffff), scaled down to the integers the
\* model checker has.
DisplacementBits == 8

SignMask == 2 ^ (DisplacementBits - 1)

\* get_branch_displacement() without the sign extension of the masks
get_branch_displacement_unsigned(insn) ==
    IF ~insn.far_xfer
    THEN insn.branch_displacement + get_next_instruction_address(insn)
    ELSE insn.branch_displacement

get_branch_displacement(insn) ==
    LET displacement == insn.branch_displacement
    IN  IF ~insn.far_xfer
        THEN (0 - (IF (displacement % (2 * SignMask)) >= SignMask
                   THEN SignMask ELSE 0))
             + (displacement % SignMask)
             + get_next_instruction_address(insn)
        ELSE displacement

(***************************************************************************)
(* xde/classifiers                                                         *)
(***************************************************************************)
PROLOGUE_ICLASSES ==
    {"XED_ICLASS_CALL_NEAR", "XED_ICLASS_RET_NEAR", "XED_ICLASS_PUSH",
     "XED_ICLASS_POP", "XED_ICLASS_CMP", "XED_ICLASS_TEST",
     "XED_ICLASS_JMP", "XED_ICLASS_JZ", "XED_ICLASS_JNZ", "XED_ICLASS_LEA",
     "XED_ICLASS_SUB", "XED_ICLASS_AND", "XED_ICLASS_XOR", "XED_ICLASS_MOV",
     "XED_ICLASS_MOVSX", "XED_ICLASS_MOVZX"}

WINDOW_SIZE == 4

\* naive.is_code()
is_code(insns) ==
    \A k \in 1 .. Min({WINDOW_SIZE, Len(insns)}) :
        insns[k].iclass \in PROLOGUE_ICLASSES

\* Classifier.is_data()
is_data(insns) == ~is_code(insns)

(***************************************************************************)
(* xde/disassembler.py: the handlers, as operations on the stores          *)
(* st = [shadow, code_xrefs, data_xrefs, exc].                             *)
(***************************************************************************)
HasFlag(img, address, length, flag) ==
    LET i == get_section_for_address_range(img, address, length)
    IN  i # 0 /\ flag \in img.sections[i].flags

is_memory_executable(img, address) == HasFlag(img, address, 1, "x")

is_memory_mapped(img, address, length) == HasFlag(img, address, length, "l")

\* is_relocatable = len(self.loader.relocations) > 0
is_relocatable(img) == img.relocations # {}

\* The cursor _do_recursive_disassembly(), _do_linear_sweep_disassembly()
\* and get_instruction() set up to decode at address
DecoderAt(img, address) ==
    LET i == get_section_for_address_range(img, address, 1)
    IN  [itext |-> i,
         itext_offset |-> address - img.sections[i].start_address,
         runtime_address |-> img.sections[i].start_address]

\* The while loop of _do_linear_sweep_disassembly(): [error, insns]
RECURSIVE LinearSweepLoop(_, _, _, _)
LinearSweepLoop(img, sh, d0, insns0) ==
    Once2(LAMBDA d, insns :
        LET r == decode(img, d)
            Break(e, list) ==
                [error |-> e, insns |-> list, decoder |-> r.decoder]
        IN  IF r.kind \in {"InvalidInstructionError", "InvalidOffsetError"}
            THEN Break(TRUE, insns)
            ELSE IF r.kind = None
            THEN Break(FALSE, insns)
            ELSE IF r.insn.category = "XED_CATEGORY_INVALID"
            THEN Break(TRUE, insns)
            ELSE LET insn == r.insn
                     displacement == get_branch_displacement(insn)
                 IN  IF is_marked_as_data(sh, insn.runtime_address,
                                          insn.length) # 0
                     THEN Break(TRUE, Append(insns, insn))
                     ELSE IF displacement # 0
                             /\ ~is_memory_executable(img, displacement)
                     THEN Break(TRUE, Append(insns, insn))
                     ELSE IF insn.category \in {"XED_CATEGORY_UNCOND_BR",
                                                "XED_CATEGORY_RET"}
                     THEN Break(FALSE, Append(insns, insn))
                     ELSE LinearSweepLoop(img, sh, r.decoder,
                                          Append(insns, insn)),
        d0, insns0)

\* The cursor the probe leaves where it does not restore the saved state
LinearSweepCursorLeft(img, sh, d, address) ==
    LinearSweepLoop(img, sh, DecoderAt(img, address), <<>>).decoder

\* The cursor _do_linear_sweep_disassembly() leaves: the state d it saved
\* on entry, restored after the loop whichever break ended it
LinearSweepCursor(img, sh, d, address) ==
    LET state == d
        r == LinearSweepLoop(img, sh, DecoderAt(img, address), <<>>)
    IN  state

\* What _do_linear_sweep_disassembly() returns
_do_linear_sweep_disassembly(img, sh, address) ==
    LET r == LinearSweepLoop(img, sh, DecoderAt(img, address), <<>>)
    IN  IF ~r.error THEN ~is_data(r.insns) ELSE FALSE

\* The cursor _is_code() leaves
IsCodeCursor(img, sh, d, address) ==
    IF is_marked_as_data(sh, address, 1) = 0
       /\ is_memory_executable(img, address)
    THEN LinearSweepCursor(img, sh, d, address)
    ELSE d

\* _is_code() answering without the probe
IsCodeUnprobed(img, sh, address) ==
    is_marked_as_data(sh, address, 1) = 0 /\ is_memory_executable(img, address)

\* _is_code() raises RuntimeError iff address is not Covered: it asks the
\* shadow memory first.
_is_code(img, sh, address) ==
    IF is_marked_as_data(sh, address, 1) = 0
       /\ is_memory_executable(img, address)
    THEN _do_linear_sweep_disassembly(img, sh, address)
    ELSE FALSE

AddCodeXref(st0, edge) ==
    Once(LAMBDA st :
        IF Ok(st) THEN [st EXCEPT !.code_xrefs = add_edge(@, edge)] ELSE st,
        st0)

AddCodeXrefAttribute(st0, edge, name, value) ==
    Once(LAMBDA st :
        IF Ok(st)
        THEN [st EXCEPT !.code_xrefs = add_edge_attribute(@, edge, name, value)]
        ELSE st,
        st0)

AddDataXref(st0, edge) ==
    Once(LAMBDA st :
        IF Ok(st) THEN [st EXCEPT !.data_xrefs = add_edge(@, edge)] ELSE st,
        st0)

\* The for loop of _analyze_normal_instruction_memory_operands(), from
\* operand i on
RECURSIVE NormalOperandsLoop(_, _, _, _)
NormalOperandsLoop(st0, img, insn, i) ==
    Once(LAMBDA st :
        IF i > Len(insn.memory_operands) \/ ~Ok(st) THEN st
        ELSE LET displacement ==
                     get_memory_displacement(insn, CpuMode(img), i)
                 length == insn.memory_operands[i].length
             IN  IF displacement # NoAddress /\ displacement # 0
                    /\ is_memory_mapped(img, displacement, 1)
                 THEN LET st1 == AddDataXref(st, <<insn.runtime_address,
                                                   displacement>>)
                          st2 == IF length \notin {4, 6, 8, 10}
                                 THEN mark_as_data(
                                          mark_as_analyzed(st1, displacement,
                                                           length),
                                          displacement, length)
                                 ELSE st1
                      IN  NormalOperandsLoop(st2, img, insn, i + 1)
                 ELSE NormalOperandsLoop(st, img, insn, i + 1),
        st0)

_analyze_normal_instruction_memory_operands(st, img, insn) ==
    NormalOperandsLoop(st, img, insn, 1)

_disassemble_normal_instruction(st0, img, insn) ==
    Once(LAMBDA st :
        LET runtime_address == insn.runtime_address
            immediate == insn.unsigned_immediate
            st1 == IF insn.immediate_width_bits = NativeWidth(CpuMode(img))
                      /\ is_memory_executable(img, immediate)
                      /\ (is_marked_as_relocated_leaf(st.shadow, immediate)
                          \/ ~is_relocatable(img))
                      /\ _is_code(img, st.shadow, immediate)
                   THEN AddDataXref(st, <<runtime_address, immediate>>)
                   ELSE st
            st2 == _analyze_normal_instruction_memory_operands(st1, img, insn)
        IN  AddCodeXref(st2, <<runtime_address,
                               get_next_instruction_address(insn)>>),
        st0)

\* fmt_map of _get_jump_table_element(): the bytes of an element of the
\* given length that struct.unpack(fmt, data)[-1] reads
ElementBytes(data, length) ==
    CASE length = 4 -> data
      [] length = 6 -> SubSeq(data, 3, 6)
      [] length = 8 -> data
      [] length = 10 -> SubSeq(data, 3, 10)

\* _get_jump_table_element() without its last test, that the element
\* points to executable memory
_get_jump_table_element_unguarded(img, sh, address, length) ==
    IF length \notin {4, 6, 8, 10}
    THEN [exc |-> "KeyError", element |-> NoAddress]
    ELSE IF ~(is_marked_as_relocated(sh, address) \/ ~is_relocatable(img))
    THEN [exc |-> None, element |-> NoAddress]
    ELSE IF read(img, address, length) = <<>>
    THEN [exc |-> "struct.error", element |-> NoAddress]
    ELSE LET element == unpack(ElementBytes(read(img, address, length),
                                            length))
         IN  IF ~Covered(sh, element)
             THEN [exc |-> "RuntimeError", element |-> NoAddress]
             ELSE IF is_marked_as_relocated_leaf(sh, element)
                     \/ ~is_relocatable(img)
             THEN [exc |-> None, element |-> element]
             ELSE [exc |-> None, element |-> NoAddress]

\* [exc, element]: the element, NoAddress for None, or the exception raised
_get_jump_table_element(img, sh, address, length) ==
    IF length \notin {4, 6, 8, 10}
    THEN [exc |-> "KeyError", element |-> NoAddress]
    ELSE IF ~(is_marked_as_relocated(sh, address) \/ ~is_relocatable(img))
    THEN [exc |-> None, element |-> NoAddress]
    ELSE IF read(img, address, length) = <<>>
    THEN [exc |-> "struct.error", element |-> NoAddress]
    ELSE LET element == unpack(ElementBytes(read(img, address, length),
                                            length))
         IN  IF ~Covered(sh, element)
             THEN [exc |-> "RuntimeError", element |-> NoAddress]
             ELSE IF (is_marked_as_relocated_leaf(sh, element)
                      \/ ~is_relocatable(img))
                     /\ is_memory_executable(img, element)
             THEN [exc |-> None, element |-> element]
             ELSE [exc |-> None, element |-> NoAddress]

\* if index_reg == pyxed.XED_REG_INVALID: there is only one element in the
\* jump table
SingleElement(op) == op.index_reg = XED_REG_INVALID

\* The while loop of _analyze_flow_control_instruction_memory_operand();
\* JumpTableTurn is a turn of it once _get_jump_table_element() has given r.
\* slots records the turn: the instruction and the displacement it is at.
RECURSIVE JumpTableLoop(_, _, _, _, _)
RECURSIVE JumpTableTurn(_, _, _, _, _, _)
JumpTableLoop(st0, img, insn, i, displacement) ==
    Once(LAMBDA st :
        IF ~Ok(st) \/ ~is_memory_mapped(img, displacement, 1) THEN st
        ELSE LET turn == [st EXCEPT !.slots =
                             Append(@, <<insn.runtime_address, displacement>>)]
             IN  IF displacement \in img.exit_points
                 THEN JumpTableTurn(turn, img, insn, i, displacement,
                                    [exc |-> None, element |-> NoAddress])
                 ELSE JumpTableTurn(turn, img, insn, i, displacement,
                                    _get_jump_table_element(
                                        img, st.shadow, displacement,
                                        insn.memory_operands[i].length)),
        st0)

JumpTableTurn(st0, img, insn, i, displacement, r) ==
    Once(LAMBDA st :
        LET runtime_address == insn.runtime_address
            op == insn.memory_operands[i]
        IN  IF displacement \notin img.exit_points /\ r.exc # None
            THEN Raise(st, r.exc)
            ELSE IF displacement \notin img.exit_points
                    /\ (r.element = NoAddress \/ r.element = 0)
            THEN st
            ELSE LET st1 ==
                         IF displacement \notin img.exit_points
                         THEN mark_as_basic_block_leader(
                                  AddCodeXref(st, <<runtime_address,
                                                    r.element>>),
                                  r.element)
                         ELSE AddCodeXref(st, <<runtime_address,
                                                displacement>>)
                 IN  IF SingleElement(op) THEN st1
                     ELSE JumpTableLoop(st1, img, insn, i,
                                        displacement + op.scale),
        st0)

_analyze_flow_control_instruction_memory_operand(st, img, insn, i) ==
    JumpTableLoop(st, img, insn, i,
                  get_memory_displacement(insn, CpuMode(img), i))

\* The for loop of _analyze_flow_control_instruction_memory_operands()
RECURSIVE FlowOperandsLoop(_, _, _, _)
FlowOperandsLoop(st0, img, insn, i) ==
    Once(LAMBDA st :
        IF i > Len(insn.memory_operands) \/ ~Ok(st) THEN st
        ELSE LET displacement ==
                     get_memory_displacement(insn, CpuMode(img), i)
             IN  IF displacement # NoAddress /\ displacement # 0
                    /\ is_memory_mapped(img, displacement, 1)
                 THEN FlowOperandsLoop(
                          _analyze_flow_control_instruction_memory_operand(
                              AddDataXref(st, <<insn.runtime_address,
                                                displacement>>),
                              img, insn, i),
                          img, insn, i + 1)
                 ELSE FlowOperandsLoop(st, img, insn, i + 1),
        st0)

_analyze_flow_control_instruction_memory_operands(st, img, insn) ==
    FlowOperandsLoop(st, img, insn, 1)

\* An unconditional jump given the edge to the next instruction that a
\* conditional jump gets
_disassemble_unconditional_jump_falling_through(st0, img, insn) ==
    Once(LAMBDA st :
        LET runtime_address == insn.runtime_address
            displacement == get_branch_displacement(insn)
            next_address == get_next_instruction_address(insn)
            st1 == IF insn.iform \in {"XED_IFORM_JMP_MEMv",
                                      "XED_IFORM_JMP_FAR_MEMp2"}
                   THEN _analyze_flow_control_instruction_memory_operands(
                            st, img, insn)
                   ELSE IF is_memory_executable(img, displacement)
                   THEN mark_as_basic_block_leader(
                            AddCodeXref(st, <<runtime_address, displacement>>),
                            displacement)
                   ELSE st
        IN  IF is_memory_executable(img, next_address)
            THEN mark_as_basic_block_leader(
                     AddCodeXref(st1, <<runtime_address, next_address>>),
                     next_address)
            ELSE st1,
        st0)

_disassemble_unconditional_jump_instruction(st0, img, insn) ==
    Once(LAMBDA st :
        LET runtime_address == insn.runtime_address
            iform == insn.iform
            displacement == get_branch_displacement(insn)
        IN  CASE iform \in {"XED_IFORM_JMP_RELBRb", "XED_IFORM_JMP_RELBRd",
                            "XED_IFORM_JMP_RELBRz"} ->
                     IF is_memory_executable(img, displacement)
                     THEN mark_as_basic_block_leader(
                              AddCodeXref(st, <<runtime_address, displacement>>),
                              displacement)
                     ELSE st
              [] iform \in {"XED_IFORM_JMP_MEMv", "XED_IFORM_JMP_FAR_MEMp2"} ->
                     _analyze_flow_control_instruction_memory_operands(st, img,
                                                                       insn)
              [] iform = "XED_IFORM_JMP_GPRv" -> st
              [] iform = "XED_IFORM_JMP_FAR_PTRp_IMMw" ->
                     IF is_memory_executable(img, displacement)
                     THEN mark_as_basic_block_leader(
                              AddCodeXref(st, <<runtime_address, displacement>>),
                              displacement)
                     ELSE st
              [] iform = "XED_IFORM_XABORT_IMMb" -> st
              [] OTHER -> Raise(st, "RuntimeError"),
        st0)

_disassemble_conditional_jump_instruction(st0, img, insn) ==
    Once(LAMBDA st :
        LET runtime_address == insn.runtime_address
            displacement == get_branch_displacement(insn)
            next_address == get_next_instruction_address(insn)
            st1 == IF insn.iform # "XED_IFORM_XEND"
                      /\ is_memory_executable(img, displacement)
                   THEN mark_as_basic_block_leader(
                            AddCodeXrefAttribute(
                                AddCodeXref(st, <<runtime_address,
                                                  displacement>>),
                                <<runtime_address, displacement>>,
                                "predicate", TRUE),
                            displacement)
                   ELSE st
        IN  mark_as_basic_block_leader(
                AddCodeXrefAttribute(
                    AddCodeXref(st1, <<runtime_address, next_address>>),
                    <<runtime_address, next_address>>, "predicate", FALSE),
                next_address),
        st0)

\* for address in self.code_xrefs.get_successors(runtime_address):
\*     self.shadow.mark_as_function(address)
RECURSIVE MarkCalleesLoop(_, _)
MarkCalleesLoop(st0, addresses) ==
    Once(LAMBDA st :
        IF addresses = {} \/ ~Ok(st) THEN st
        ELSE LET address == Min(addresses)
             IN  MarkCalleesLoop(mark_as_function(st, address),
                                 addresses \ {address}),
        st0)

MarkCallees(st0, runtime_address) ==
    Once(LAMBDA st :
        MarkCalleesLoop(st, get_successors(st.code_xrefs, runtime_address)),
        st0)

\* The test of a near call taking the next instruction for a callee too
IsCalleeOrNext(img, displacement, next_address) ==
    is_memory_executable(img, displacement)

\* The test of a near call with a relative displacement: a call to the
\* instruction that follows it reads the program counter, it calls nothing
IsCallee(img, displacement, next_address) ==
    displacement # next_address /\ is_memory_executable(img, displacement)

\* _disassemble_call_instruction() adding the edge to the next instruction
\* before it analyzes the call
_disassemble_call_instruction_edge_first(st0, img, insn) ==
    Once(LAMBDA st :
        LET runtime_address == insn.runtime_address
            iform == insn.iform
            displacement == get_branch_displacement(insn)
            next_address == get_next_instruction_address(insn)
            st1 == AddCodeXref(st, <<runtime_address, next_address>>)
        IN  CASE iform \in {"XED_IFORM_CALL_NEAR_RELBRz",
                            "XED_IFORM_CALL_NEAR_RELBRd"} ->
                     IF IsCallee(img, displacement, next_address)
                     THEN mark_as_function(
                              AddCodeXref(st1, <<runtime_address,
                                                 displacement>>),
                              displacement)
                     ELSE st1
              [] iform \in {"XED_IFORM_CALL_NEAR_MEMv",
                            "XED_IFORM_CALL_FAR_MEMp2"} ->
                     MarkCallees(
                         _analyze_flow_control_instruction_memory_operands(
                             st1, img, insn),
                         runtime_address)
              [] iform = "XED_IFORM_CALL_NEAR_GPRv" -> st1
              [] iform = "XED_IFORM_CALL_FAR_PTRp_IMMw" ->
                     IF is_memory_executable(img, displacement)
                     THEN mark_as_function(st1, displacement)
                     ELSE st1
              [] OTHER -> Raise(st, "RuntimeError"),
        st0)

_disassemble_call_instruction(st0, img, insn) ==
    Once(LAMBDA st :
        LET runtime_address == insn.runtime_address
            iform == insn.iform
            displacement == get_branch_displacement(insn)
            next_address == get_next_instruction_address(insn)
            st1 ==
                CASE iform \in {"XED_IFORM_CALL_NEAR_RELBRz",
                                "XED_IFORM_CALL_NEAR_RELBRd"} ->
                         IF IsCallee(img, displacement, next_address)
                         THEN mark_as_function(
                                  AddCodeXref(st, <<runtime_address,
                                                    displacement>>),
                                  displacement)
                         ELSE st
                  [] iform \in {"XED_IFORM_CALL_NEAR_MEMv",
                                "XED_IFORM_CALL_FAR_MEMp2"} ->
                         MarkCallees(
                             _analyze_flow_control_instruction_memory_operands(
                                 st, img, insn),
                             runtime_address)
                  [] iform = "XED_IFORM_CALL_NEAR_GPRv" -> st
                  [] iform = "XED_IFORM_CALL_FAR_PTRp_IMMw" ->
                         IF is_memory_executable(img, displacement)
                         THEN mark_as_function(st, displacement)
                         ELSE st
                  [] OTHER -> Raise(st, "RuntimeError")
        IN  AddCodeXref(st1, <<runtime_address, next_address>>),
        st0)

_disassemble_flow_control_instruction(st0, img, insn) ==
    Once(LAMBDA st :
        LET category == insn.category
        IN  CASE category = "XED_CATEGORY_CALL" ->
                     _disassemble_call_instruction(st, img, insn)
              [] category = "XED_CATEGORY_UNCOND_BR" ->
                     _disassemble_unconditional_jump_instruction(st, img, insn)
              [] category = "XED_CATEGORY_COND_BR" ->
                     _disassemble_conditional_jump_instruction(st, img, insn)
              [] category \in {"XED_CATEGORY_RET", "XED_CATEGORY_INTERRUPT",
                               "XED_CATEGORY_SYSCALL", "XED_CATEGORY_SYSRET"} ->
                     st
              [] OTHER -> Raise(st, "RuntimeError"),
        st0)

\* _disassemble_instruction() once decode() has returned insn
_disassemble_instruction(st0, img, insn) ==
    Once(LAMBDA st :
        LET st0d == [st EXCEPT !.decoded = @ \cup {insn.runtime_address}]
            st1 == IF get_program_counter_name(CpuMode(img))
                        \in get_written_registers(insn)
                   THEN _disassemble_flow_control_instruction(st0d, img, insn)
                   ELSE _disassemble_normal_instruction(st0d, img, insn)
        IN  mark_as_code(mark_as_analyzed(st1, insn.runtime_address,
                                          insn.length),
                         insn.runtime_address, insn.length),
        st0)

(***************************************************************************)
(* xde/disassembler.py: relocation analysis                                *)
(***************************************************************************)
\* _analyze_relocation() marking as a leaf every pointer it follows
_analyze_relocation_leafing_all(st0, img, address) ==
    Once(LAMBDA st :
        LET size == NativeSize(CpuMode(img))
        IN  IF is_memory_mapped(img, address, size)
            THEN LET st1 == mark_as_relocated(mark_as_analyzed(st, address, 1),
                                              address)
                     element == unpack(read(img, address, size))
                 IN  IF is_memory_mapped(img, element, 1)
                     THEN [st |-> mark_as_relocated_leaf(st1, element),
                           call |-> IF element \in img.relocations
                                    THEN element ELSE NoAddress]
                     ELSE [st |-> st1, call |-> NoAddress]
            ELSE [st |-> st, call |-> NoAddress],
        st0)

\* One frame of _analyze_relocation(): [st, call], call being the address
\* the frame calls itself with, NoAddress if it returns
_analyze_relocation(st0, img, address) ==
    Once(LAMBDA st :
        LET size == NativeSize(CpuMode(img))
        IN  IF is_memory_mapped(img, address, size)
            THEN LET st1 == mark_as_relocated(mark_as_analyzed(st, address, 1),
                                              address)
                     element == unpack(read(img, address, size))
                 IN  IF is_memory_mapped(img, element, 1)
                     THEN IF element \in img.relocations
                          THEN [st |-> st1, call |-> element]
                          ELSE [st |-> mark_as_relocated_leaf(st1, element),
                                call |-> NoAddress]
                     ELSE [st |-> st1, call |-> NoAddress]
            ELSE [st |-> st, call |-> NoAddress],
        st0)

\* is_marked_as_relocated(address), raising where address is not covered
RelocatedOrRaise(st, address) ==
    IF ~Covered(st.shadow, address) THEN "raise"
    ELSE IF is_marked_as_relocated(st.shadow, address) THEN "yes" ELSE "no"

\* The inner while loop of _analyze_relocations(): [st, address]
RECURSIVE RelocatedRunLoop(_, _, _, _)
RelocatedRunLoop(st0, end_address, address, size) ==
    Once(LAMBDA st :
        LET m == RelocatedOrRaise(st, address)
        IN  IF m = "raise"
            THEN [st |-> Raise(st, "RuntimeError"), address |-> address]
            ELSE IF m = "yes" /\ address < end_address
            THEN RelocatedRunLoop(mark_as_data(st, address, 1), end_address,
                                  address + size, size)
            ELSE [st |-> st, address |-> address],
        st0)

\* The outer while loop of _analyze_relocations() over one section
RECURSIVE DataRegionLoop(_, _, _, _)
DataRegionLoop(st0, end_address, address, size) ==
    Once(LAMBDA st :
        IF ~Ok(st) \/ address >= end_address THEN st
        ELSE LET m1 == RelocatedOrRaise(st, address)
                 m2 == RelocatedOrRaise(st, address + size)
                 m3 == RelocatedOrRaise(st, address + size + size)
             IN  IF m1 = "raise" \/ (m1 = "yes" /\ m2 = "raise")
                    \/ (m1 = "yes" /\ m2 = "yes" /\ m3 = "raise")
                 THEN Raise(st, "RuntimeError")
                 ELSE IF m1 = "yes" /\ m2 = "yes" /\ m3 = "yes"
                 THEN LET r == RelocatedRunLoop(st, end_address, address, size)
                      IN  DataRegionLoop(r.st, end_address, r.address, size)
                 ELSE DataRegionLoop(st, end_address, address + 1, size),
        st0)

\* for section in self.loader.sections, from section i on
RECURSIVE DataRegions(_, _, _)
DataRegions(st0, img, i) ==
    Once(LAMBDA st :
        IF i > Len(img.sections) \/ ~Ok(st) THEN st
        ELSE DataRegions(DataRegionLoop(st, img.sections[i].end_address,
                                        img.sections[i].start_address,
                                        NativeSize(CpuMode(img))),
                         img, i + 1),
        st0)

(***************************************************************************)
(* xde/disassembler.py: basic blocks, the CFG and the queries              *)
(***************************************************************************)
\* basic_block.BasicBlock
\* A basic block that ends at the address of its last instruction
BasicBlockEndingAtLast(start, end, instructions) ==
    [start_address |-> start, end_address |-> instructions[Len(instructions)],
     instructions |-> instructions]

BasicBlock(start, end, instructions) ==
    [start_address |-> start, end_address |-> end,
     instructions |-> instructions]

\* The innermost while loop with every address of the block taken for the
\* first byte of an instruction
RECURSIVE BlockBodyLoopOfBytes(_, _, _, _)
BlockBodyLoopOfBytes(sh, address, end_address, instructions) ==
    IF address <= end_address
       /\ is_marked_as_code(sh, address)
       /\ ~is_marked_as_basic_block_leader(sh, address)
    THEN BlockBodyLoopOfBytes(sh, address + 1, end_address,
                              Append(instructions, address))
    ELSE [address |-> address, instructions |-> instructions]

\* The innermost while loop of _build_basic_block_set_for_range()
RECURSIVE BlockBodyLoop(_, _, _, _)
BlockBodyLoop(sh, address0, end_address, instructions0) ==
    Once2(LAMBDA address, instructions :
        IF address <= end_address
           /\ is_marked_as_code(sh, address)
           /\ ~is_marked_as_basic_block_leader(sh, address)
        THEN BlockBodyLoop(sh, address + 1, end_address,
                           IF is_marked_as_head(sh, address)
                           THEN Append(instructions, address)
                           ELSE instructions)
        ELSE [address |-> address, instructions |-> instructions],
        address0, instructions0)

\* The outer while loop stepping over the address a block ends at
RECURSIVE _build_basic_block_set_skipping(_, _, _, _)
_build_basic_block_set_skipping(sh, bbs, address, end_address) ==
    IF address > end_address THEN bbs
    ELSE IF ~is_marked_as_basic_block_leader(sh, address)
    THEN _build_basic_block_set_skipping(sh, bbs, address + 1, end_address)
    ELSE LET r == BlockBodyLoop(sh, address + 1, end_address, <<address>>)
         IN  _build_basic_block_set_skipping(
                 sh,
                 Put(bbs, address,
                     BasicBlock(address, r.address, r.instructions)),
                 r.address + 1, end_address)

\* The outer while loop, from address on, on the map bbs
RECURSIVE _build_basic_block_set_for_range(_, _, _, _)
_build_basic_block_set_for_range(sh, bbs0, address0, end_address) ==
    Once2(LAMBDA bbs, address :
        IF address > end_address THEN bbs
        ELSE IF ~is_marked_as_basic_block_leader(sh, address)
        THEN _build_basic_block_set_for_range(sh, bbs, address + 1, end_address)
        ELSE LET r == BlockBodyLoop(sh, address + 1, end_address, <<address>>)
             IN  _build_basic_block_set_for_range(
                     sh,
                     Put(bbs, address,
                         BasicBlock(address, r.address, r.instructions)),
                     r.address, end_address),
        bbs0, address0)

\* for start_address, end_address in self.shadow.memory_ranges
RECURSIVE _build_basic_block_set(_, _, _)
_build_basic_block_set(sh, bbs0, i) ==
    Once(LAMBDA bbs :
        IF i > Len(sh.memory_ranges) THEN bbs
        ELSE _build_basic_block_set(
                 sh,
                 _build_basic_block_set_for_range(sh, bbs,
                                                  sh.memory_ranges[i][1],
                                                  sh.memory_ranges[i][2]),
                 i + 1),
        bbs0)

\* get_instruction(): [exc, insn, decoder]; insn is Invalid where the
\* source returns None
get_instruction(img, sh, d, address) ==
    IF ~Covered(sh, address)
    THEN [exc |-> "RuntimeError", insn |-> Invalid, decoder |-> d]
    ELSE IF ~(is_marked_as_code(sh, address) /\ is_marked_as_head(sh, address))
    THEN [exc |-> None, insn |-> Invalid, decoder |-> d]
    ELSE IF get_section_for_address_range(img, address, 1) = 0
    THEN [exc |-> "AttributeError", insn |-> Invalid, decoder |-> d]
    ELSE LET r == decode(img, DecoderAt(img, address))
         IN  [exc |-> None, insn |-> r.insn, decoder |-> r.decoder]

\* for successor in successors, of _build_cfg()
RECURSIVE CfgSuccessorsLoop(_, _, _, _)
CfgSuccessorsLoop(g0, sh, start, successors0) ==
    Once2(LAMBDA g, successors :
        IF successors = {} THEN g
        ELSE LET successor == Min(successors)
             IN  CfgSuccessorsLoop(
                     IF is_marked_as_basic_block_leader(sh, successor)
                        /\ ~is_marked_as_function(sh, successor)
                     THEN add_edge(g, <<start, successor>>)
                     ELSE g,
                     sh, start, successors \ {successor}),
        g0, successors0)

\* The body of the for loop of _build_cfg() on one block, once
\* get_instruction() has returned insn
CfgBlock(g, img, sh, xrefs, block, insn) ==
    IF get_program_counter_name(CpuMode(img)) \in get_written_registers(insn)
    THEN CfgSuccessorsLoop(g, sh, block.start_address,
                           get_successors(xrefs,
                               block.instructions[Len(block.instructions)]))
    ELSE add_edge(g, <<block.start_address, block.end_address>>)

\* _disassemble_orphan(): the addresses it marks as functions
ExecutableAddresses(img) ==
    UNION {img.sections[i].start_address .. (img.sections[i].end_address - 1) :
             i \in {k \in DOMAIN img.sections : "x" \in img.sections[k].flags}}

\* The orphans without the test for a basic block leader
OrphansOfAnyMark(img, sh, xrefs) ==
    {address \in ExecutableAddresses(img) :
        /\ is_marked_as_relocated_leaf(sh, address)
        /\ Cardinality(get_predecessors(xrefs, address)) = 0}

Orphans(img, sh, xrefs) ==
    {address \in ExecutableAddresses(img) :
        /\ is_marked_as_relocated_leaf(sh, address)
        /\ is_marked_as_basic_block_leader(sh, address)
        /\ Cardinality(get_predecessors(xrefs, address)) = 0}

RECURSIVE MarkFunctions(_, _)
MarkFunctions(st0, addresses) ==
    Once(LAMBDA st :
        IF addresses = {} THEN st
        ELSE MarkFunctions(mark_as_function(st, Min(addresses)),
                           addresses \ {Min(addresses)}),
        st0)

\* _disassemble_orphan() without the test for incoming edges
_disassemble_orphan_referenced(st0, img) ==
    Once(LAMBDA st :
        MarkFunctions(st, {address \in ExecutableAddresses(img) :
                             /\ is_marked_as_relocated_leaf(st.shadow, address)
                             /\ is_marked_as_basic_block_leader(st.shadow,
                                                                address)}),
        st0)

_disassemble_orphan(st0, img) ==
    Once(LAMBDA st :
        MarkFunctions(st, Orphans(img, st.shadow, st.code_xrefs)),
        st0)

(***************************************************************************)
(* Disassembler.disassemble() as a state machine                           *)
(***************************************************************************)
\* The depth at which the interpreter ends a recursion with RuntimeError
\* ("maximum recursion depth exceeded")
MaxRecursionDepth == 3

St ==
    [shadow |-> shadow, code_xrefs |-> code_xrefs, data_xrefs |-> data_xrefs,
     exc |-> None, decoded |-> decoded, slots |-> slots]

\* The stores after a handler; an exception that leaves the handler ends
\* disassemble(): nothing in the engine catches it.
Stores(st) ==
    /\ shadow' = st.shadow
    /\ code_xrefs' = st.code_xrefs
    /\ data_xrefs' = st.data_xrefs
    /\ exc' = st.exc
    /\ decoded' = st.decoded
    /\ slots' = st.slots

Goto(st, label) == pc' = IF Ok(st) THEN label ELSE "aborted"

\* The orders in which a for loop may visit the set S
Orders(S) ==
    {f \in [1 .. Cardinality(S) -> S] :
        \A i, j \in 1 .. Cardinality(S) : i # j => f[i] # f[j]}

\* The addresses the xrange loops of a phase have still to visit
Remaining(img, from) == {a \in ExecutableAddresses(img) : a >= from}

RelocatedCandidates ==
    {a \in Remaining(image, scan) : is_marked_as_relocated_leaf(shadow, a)}

DeferredCandidates ==
    {a \in Remaining(image, scan) :
        ~is_marked_as_analyzed(shadow, a)
        /\ is_marked_as_basic_block_leader(shadow, a)}

NoDecoder == [itext |-> 0, itext_offset |-> 0, runtime_address |-> 0]

SectionRanges(img) ==
    [i \in DOMAIN img.sections |->
        <<img.sections[i].start_address, img.sections[i].end_address>>]

\* for address in self.loader.relocations: the call of _analyze_relocation()
AnalyzeRelocations ==
    /\ pc = "relocations"
    /\ chain = <<>>
    /\ \E address \in todo :
          \E r \in {_analyze_relocation(St, image, address)} :
              /\ Stores(r.st)
              /\ Goto(r.st, "relocations")
              /\ todo' = todo \ {address}
              /\ chain' = IF r.call = NoAddress THEN <<>>
                          ELSE <<address, r.call>>
    /\ UNCHANGED <<image, basic_blocks, cfg, decoder, ret, scan, stack,
                   start_address, error, done, run, first, call>>

\* _analyze_relocation() calling itself: the frame of the last address of
\* chain runs
AnalyzeRelocationChain ==
    /\ pc = "relocations"
    /\ chain # <<>>
    /\ \E r \in {_analyze_relocation(St, image, chain[Len(chain)])} :
          LET st == IF Len(chain) > MaxRecursionDepth
                    THEN Raise(St, "RuntimeError")
                    ELSE r.st
          IN  /\ Stores(st)
              /\ Goto(st, "relocations")
              /\ chain' = IF ~Ok(st) THEN chain
                          ELSE IF r.call = NoAddress THEN <<>>
                          ELSE Append(chain, r.call)
    /\ UNCHANGED <<image, basic_blocks, cfg, decoder, ret, todo, scan, stack,
                   start_address, error, done, run, first, call>>

\* The second half of _analyze_relocations(), then disassemble() goes on
\* to _disassemble_entry_points()
AnalyzeRelocatedDataRegions ==
    /\ pc = "relocations"
    /\ chain = <<>>
    /\ todo = {}
    /\ \E st \in {DataRegions(St, image, 1)} :
          /\ Stores(st)
          /\ Goto(st, "entry_points")
    /\ todo' = image.entry_points
    /\ UNCHANGED <<image, basic_blocks, cfg, decoder, ret, scan, stack,
                   start_address, error, done, chain, run, first, call>>

\* The body of the for loop of _disassemble_entry_points(), up to the call
\* of _do_recursive_disassembly()
DisassembleEntryPoint ==
    /\ pc = "entry_points"
    /\ \E entry_point \in todo :
          \E st \in {mark_as_function(St, entry_point)} :
              /\ Stores(st)
              /\ Goto(st, "pop")
              /\ todo' = todo \ {entry_point}
              /\ stack' = <<entry_point>>
    /\ ret' = "entry_points"
    /\ UNCHANGED <<image, basic_blocks, cfg, decoder, scan, start_address,
                   error, done, chain, run, first, call>>

\* The body of the first for loop of _disassemble_functions()
DisassembleFunction ==
    /\ pc = "functions"
    /\ \E address \in todo :
          \E calls \in {Covered(shadow, address)
                        /\ _is_code(image, shadow, address)} :
             LET st == IF ~Covered(shadow, address)
                       THEN Raise(St, "RuntimeError")
                       ELSE IF calls THEN mark_as_function(St, address)
                       ELSE St
             IN  /\ Stores(st)
                 /\ Goto(st, IF calls THEN "pop" ELSE "functions")
                 /\ todo' = todo \ {address}
                 /\ stack' = IF calls THEN <<address>> ELSE stack
                 /\ decoder' = IF Covered(shadow, address)
                               THEN IsCodeCursor(image, shadow, decoder,
                                                 address)
                               ELSE decoder
    /\ ret' = "functions"
    /\ UNCHANGED <<image, basic_blocks, cfg, scan, start_address, error,
                   done, chain, run, first, call>>

\* The body of the second for loop of _disassemble_functions()
MarkExitPoint ==
    /\ pc = "exit_points"
    /\ \E address \in todo :
          \E st \in {mark_as_function(mark_as_analyzed(St, address, 1),
                                       address)} :
              /\ Stores(st)
              /\ Goto(st, "exit_points")
              /\ todo' = todo \ {address}
    /\ UNCHANGED <<image, basic_blocks, cfg, decoder, ret, scan, stack,
                   start_address, error, done, chain, run, first, call>>

\* _disassemble_relocated(): the loop runs up to the next address marked
\* as a relocated leaf and through its body there
DisassembleRelocated ==
    /\ pc = "relocated"
    /\ RelocatedCandidates # {}
    /\ \E calls \in {_is_code(image, shadow, Min(RelocatedCandidates))} :
          LET address == Min(RelocatedCandidates)
              st == IF calls THEN mark_as_basic_block_leader(St, address)
                    ELSE St
          IN  /\ Stores(st)
              /\ Goto(st, IF calls THEN "pop" ELSE "relocated")
              /\ scan' = address + 1
              /\ stack' = IF calls THEN <<address>> ELSE stack
    /\ ret' = "relocated"
    /\ decoder' = IsCodeCursor(image, shadow, decoder,
                               Min(RelocatedCandidates))
    /\ UNCHANGED <<image, basic_blocks, cfg, todo, start_address,
                   error, done, chain, run, first, call>>

\* _disassemble_deferred(): the loops run up to the next leader that is not
\* analyzed and call _do_recursive_disassembly() there; a pass that ends
\* with done false is followed by another.
DisassembleDeferred ==
    /\ pc = "deferred"
    /\ ~(DeferredCandidates = {} /\ done)
    /\ IF DeferredCandidates # {}
       THEN /\ stack' = <<Min(DeferredCandidates)>>
            /\ scan' = Min(DeferredCandidates) + 1
            /\ done' = FALSE
            /\ pc' = "pop"
            /\ ret' = "deferred"
       ELSE /\ done' = TRUE
            /\ scan' = 0
            /\ UNCHANGED <<stack, pc, ret>>
    /\ UNCHANGED <<image, shadow, code_xrefs, data_xrefs, basic_blocks, cfg,
                   decoder, todo, start_address, error, chain, exc, run,
                   first, call, decoded, slots>>

\* A for loop of a phase has visited everything: the next phase begins
LoopEnded ==
    CASE pc \in {"entry_points", "functions", "exit_points", "cfg"} ->
             todo = {}
      [] pc = "relocated" -> RelocatedCandidates = {}
      [] pc = "deferred" -> DeferredCandidates = {} /\ done
      [] OTHER -> FALSE

NextPhaseOf(p) ==
    CASE p = "entry_points" -> "functions"
      [] p = "functions" -> "exit_points"
      [] p = "exit_points" -> "relocated"
      [] p = "relocated" -> "deferred"
      [] p = "deferred" -> "orphan"
      [] p = "cfg" -> "done"

NextPhase ==
    /\ LoopEnded
    /\ pc' = NextPhaseOf(pc)
    /\ todo' = CASE pc = "entry_points" -> image.functions
                 [] pc = "functions" -> image.exit_points
                 [] OTHER -> {}
    /\ scan' = 0
    /\ done' = TRUE
    /\ UNCHANGED <<image, shadow, code_xrefs, data_xrefs, basic_blocks, cfg,
                   decoder, ret, stack, start_address, error, chain, exc,
                   run, first, call, decoded, slots>>

DisassembleOrphan ==
    /\ pc = "orphan"
    /\ \E st \in {_disassemble_orphan(St, image)} :
          /\ Stores(st)
          /\ Goto(st, "basic_blocks")
    /\ UNCHANGED <<image, basic_blocks, cfg, decoder, ret, todo, scan, stack,
                   start_address, error, done, chain, run, first, call>>

BuildBasicBlockSet ==
    /\ pc = "basic_blocks"
    /\ basic_blocks' = _build_basic_block_set(shadow, basic_blocks, 1)
    /\ todo' = DOMAIN basic_blocks'
    /\ pc' = "cfg"
    /\ UNCHANGED <<image, shadow, code_xrefs, data_xrefs, cfg, decoder, ret,
                   scan, stack, start_address, error, done, chain, exc, run,
                   first, call, decoded, slots>>

\* The body of the for loop of _build_cfg() on one block
BuildCfg ==
    /\ pc = "cfg"
    /\ \E start \in todo :
          LET block == basic_blocks[start]
              address == block.instructions[Len(block.instructions)]
              r == get_instruction(image, shadow, decoder, address)
              skip == start \in image.exit_points
              e == IF skip THEN None
                   ELSE IF r.exc # None THEN r.exc
                   ELSE IF r.insn = Invalid THEN "RuntimeError"
                   ELSE None
          IN  /\ todo' = todo \ {start}
              /\ exc' = e
              /\ pc' = IF e = None THEN "cfg" ELSE "aborted"
              /\ decoder' = IF skip THEN decoder ELSE r.decoder
              /\ cfg' = IF skip \/ e # None THEN cfg
                        ELSE CfgBlock(cfg, image, shadow, code_xrefs, block,
                                      r.insn)
    /\ UNCHANGED <<image, shadow, code_xrefs, data_xrefs, basic_blocks, ret,
                   scan, stack, start_address, error, done, chain, run,
                   first, call, decoded, slots>>

\* _do_recursive_disassembly(): the head of the outer while loop, up to the
\* decoder being set up; with the stack empty the function returns to the
\* phase that called it.
RecursivePop ==
    /\ pc = "pop"
    /\ IF stack = <<>>
       THEN /\ pc' = ret
            /\ UNCHANGED <<stack, start_address, error, decoder, exc>>
       ELSE LET address == stack[Len(stack)]
                skip == is_marked_as_analyzed(shadow, address)
                        \/ address \in image.exit_points
                e == IF ~Covered(shadow, address) THEN "RuntimeError"
                     ELSE IF skip THEN None
                     ELSE IF get_section_for_address_range(image, address, 1)
                             = 0
                     THEN "AttributeError"
                     ELSE None
            IN  /\ stack' = SubSeq(stack, 1, Len(stack) - 1)
                /\ exc' = e
                /\ IF e # None
                   THEN /\ pc' = "aborted"
                        /\ UNCHANGED <<start_address, error, decoder>>
                   ELSE IF skip
                   THEN /\ pc' = "pop"
                        /\ UNCHANGED <<start_address, error, decoder>>
                   ELSE /\ pc' = "sweep"
                        /\ start_address' = address
                        /\ error' = FALSE
                        /\ decoder' = DecoderAt(image, address)
    /\ UNCHANGED <<image, shadow, code_xrefs, data_xrefs, basic_blocks, cfg,
                   ret, todo, scan, done, chain, run, first, call,
                   decoded, slots>>

\* One turn of the inner while loop of _do_recursive_disassembly(); when
\* the loop breaks, the statement after it runs too.  SweepTurn is the turn
\* once decode() has given r and, for an instruction,
\* _disassemble_instruction() has left the stores st1.
SweepTurn(r, st1) ==
    LET successors == get_successors(st1.code_xrefs,
                                     IF r.kind = "insn"
                                     THEN r.insn.runtime_address
                                     ELSE 0)
        st2 == IF \E a \in successors : ~Covered(st1.shadow, a)
               THEN Raise(st1, "RuntimeError")
               ELSE st1
        unanalyzed == IF r.kind = "insn" /\ Ok(st2)
                      THEN {a \in successors :
                              ~is_marked_as_analyzed(st2.shadow, a)}
                      ELSE {}
        raised == r.kind \in {"InvalidInstructionError",
                              "InvalidOffsetError"}
        breaks == \/ r.kind = None
                  \/ /\ r.kind = "insn"
                     /\ Ok(st2)
                     /\ \/ r.insn.category \in {"XED_CATEGORY_RET",
                                                "XED_CATEGORY_UNCOND_BR"}
                        \/ is_marked_as_analyzed(
                               st2.shadow,
                               get_next_instruction_address(r.insn))
        st3 == IF breaks /\ ~error
               THEN mark_as_basic_block_leader(st2, start_address)
               ELSE st2
    IN  /\ Stores(st3)
        /\ Goto(st3, IF breaks THEN "pop" ELSE "sweep")
        /\ error' = (error \/ raised)
        /\ decoder' = r.decoder
        /\ \E order \in Orders(unanalyzed) : stack' = stack \o order

RecursiveSweep ==
    /\ pc = "sweep"
    /\ \E r \in {decode(image, decoder)} :
          \E st1 \in {IF r.kind = "insn"
                       THEN _disassemble_instruction(St, image, r.insn)
                       ELSE St} :
             SweepTurn(r, st1)
    /\ UNCHANGED <<image, basic_blocks, cfg, ret, todo, scan, start_address,
                   done, chain, run, first, call>>

\* What a call of disassemble() produced
Result == [basic_blocks |-> basic_blocks, edges |-> get_edges(cfg)]

\* disassemble() is called again on the stores the first call left
DisassembleAgain ==
    /\ pc = "done"
    /\ run = "first"
    /\ run' = "again"
    /\ first' = Result
    /\ pc' = "relocations"
    /\ todo' = image.relocations
    /\ UNCHANGED <<image, shadow, code_xrefs, data_xrefs, basic_blocks, cfg,
                   decoder, ret, scan, stack, start_address, error, done,
                   chain, exc, call, decoded, slots>>

\* The same image is disassembled from empty stores, the for loops being
\* free to visit their sets in another order
DisassembleAfresh ==
    /\ pc = "done"
    /\ run = "first"
    /\ run' = "afresh"
    /\ first' = Result
    /\ pc' = "relocations"
    /\ todo' = image.relocations
    /\ shadow' = EMShadowMemory(SectionRanges(image))
    /\ code_xrefs' = EMGraph
    /\ data_xrefs' = EMGraph
    /\ basic_blocks' = EmptyMap
    /\ cfg' = EMGraph
    /\ decoder' = NoDecoder
    /\ decoded' = {}
    /\ slots' = <<>>
    /\ UNCHANGED <<image, ret, scan, stack, start_address, error, done,
                   chain, exc, call>>

(***************************************************************************)
(* xde/disassembler.py: the queries on the stores a completed run leaves   *)
(***************************************************************************)
\* No call of the API has been made yet.  value is the list of the objects
\* a call returns; absent says that it returned None.
NoCall ==
    [op |-> "none", address |-> 0, length |-> 0, mark |-> M_NONE,
     exc |-> None, absent |-> TRUE, value |-> <<>>, count |-> 0,
     before |-> <<>>, n |-> 0]

\* The elements of a set of integers in ascending order, the order in which
\* a set of small integers is iterated
RECURSIVE SetToSeq(_)
SetToSeq(S) ==
    IF S = {} THEN <<>> ELSE <<Min(S)>> \o SetToSeq(S \ {Min(S)})

\* obj.name where the constructor has set no attribute of that name raises
\* AttributeError
HasAttribute(obj, name) == name \in DOMAIN obj

\* The while loop of get_basic_block(): the leader it stops at, NoAddress
\* where is_marked_as_basic_block_leader() raises
RECURSIVE LeaderWalk(_, _)
LeaderWalk(sh, address) ==
    IF ~Covered(sh, address) THEN NoAddress
    ELSE IF is_marked_as_basic_block_leader(sh, address) THEN address
    ELSE LeaderWalk(sh, address - 1)

\* get_basic_block(): [exc, absent, value]
get_basic_block(sh, bbs, address) ==
    IF ~(HasAttribute(sh, "start_address") /\ HasAttribute(sh, "end_address"))
    THEN [exc |-> "AttributeError", absent |-> FALSE, value |-> <<>>]
    ELSE IF ~(sh.start_address <= address /\ address <= sh.end_address)
    THEN [exc |-> None, absent |-> TRUE, value |-> <<>>]
    ELSE LET leader == LeaderWalk(sh, address)
         IN  IF leader = NoAddress
             THEN [exc |-> "RuntimeError", absent |-> FALSE, value |-> <<>>]
             ELSE IF leader \notin DOMAIN bbs
             THEN [exc |-> "KeyError", absent |-> FALSE, value |-> <<>>]
             ELSE [exc |-> None, absent |-> FALSE, value |-> <<bbs[leader]>>]

\* The while loop of get_function(): [exc, addresses]
RECURSIVE FunctionDfs(_, _, _, _, _)
FunctionDfs(sh, g, stack0, seen0, addresses0) ==
    Once2(LAMBDA s, addresses :
        IF s.stack = <<>> THEN [exc |-> None, addresses |-> addresses]
        ELSE LET address == s.stack[Len(s.stack)]
                 seen == s.seen \cup {address}
                 unseen == get_successors(g, address) \ seen
             IN  IF \E a \in unseen : ~Covered(sh, a)
                 THEN [exc |-> "RuntimeError", addresses |-> addresses]
                 ELSE FunctionDfs(
                          sh, g,
                          SubSeq(s.stack, 1, Len(s.stack) - 1)
                            \o SetToSeq({a \in unseen :
                                           ~is_marked_as_function(sh, a)}),
                          seen,
                          IF address \notin s.seen
                          THEN Append(addresses, address) ELSE addresses),
        [stack |-> stack0, seen |-> seen0], addresses0)

\* get_function(): [exc, absent, value]
get_function(sh, g, bbs, address) ==
    IF ~Covered(sh, address)
    THEN [exc |-> "RuntimeError", absent |-> FALSE, value |-> <<>>]
    ELSE IF ~is_marked_as_function(sh, address)
    THEN [exc |-> None, absent |-> TRUE, value |-> <<>>]
    ELSE LET r == FunctionDfs(sh, g, <<address>>, {}, <<>>)
         IN  IF r.exc # None
             THEN [exc |-> r.exc, absent |-> FALSE, value |-> <<>>]
             ELSE IF \E k \in DOMAIN r.addresses : r.addresses[k] \notin DOMAIN bbs
             THEN [exc |-> "KeyError", absent |-> FALSE, value |-> <<>>]
             ELSE [exc |-> None, absent |-> FALSE,
                   value |-> [k \in DOMAIN r.addresses |-> bbs[r.addresses[k]]]]

\* The addresses the queries are made with: those the shadow memory backs,
\* those between its ranges and one on either side
QueryAddresses ==
    (Min(CoveredAddresses(shadow)) - 1) .. (Max(CoveredAddresses(shadow)) + 1)

\* The caller of a query sees what it returned, or the exception it raised
Returned(op, address, r) ==
    call' = [NoCall EXCEPT !.op = op, !.address = address, !.exc = r.exc,
                           !.absent = r.absent, !.value = r.value]

\* get_instruction(address) on the stores of a completed run
GetInstruction ==
    /\ pc = "done"
    /\ run = "first"
    /\ \E address \in QueryAddresses :
          \E r \in {get_instruction(image, shadow, decoder, address)} :
              /\ Returned("get_instruction", address,
                          [exc |-> r.exc,
                           absent |-> r.exc = None /\ r.insn = Invalid,
                           value |-> IF r.exc = None /\ r.insn # Invalid
                                     THEN <<r.insn>> ELSE <<>>])
              /\ decoder' = r.decoder
    /\ pc' = "queried"
    /\ UNCHANGED <<image, shadow, code_xrefs, data_xrefs, basic_blocks, cfg,
                   ret, todo, scan, stack, start_address, error, done, chain,
                   exc, run, first, decoded, slots>>

\* get_basic_block(address) on the stores of a completed run
GetBasicBlock ==
    /\ pc = "done"
    /\ run = "first"
    /\ \E address \in QueryAddresses :
          Returned("get_basic_block", address,
                   get_basic_block(shadow, basic_blocks, address))
    /\ pc' = "queried"
    /\ UNCHANGED <<image, shadow, code_xrefs, data_xrefs, basic_blocks, cfg,
                   decoder, ret, todo, scan, stack, start_address, error,
                   done, chain, exc, run, first, decoded, slots>>

\* get_function(address) on the stores of a completed run
GetFunction ==
    /\ pc = "done"
    /\ run = "first"
    /\ \E address \in QueryAddresses :
          Returned("get_function", address,
                   get_function(shadow, cfg, basic_blocks, address))
    /\ pc' = "queried"
    /\ UNCHANGED <<image, shadow, code_xrefs, data_xrefs, basic_blocks, cfg,
                   decoder, ret, todo, scan, stack, start_address, error,
                   done, chain, exc, run, first, decoded, slots>>

Next ==
    \/ AnalyzeRelocations
    \/ AnalyzeRelocationChain
    \/ AnalyzeRelocatedDataRegions
    \/ DisassembleEntryPoint
    \/ DisassembleFunction
    \/ MarkExitPoint
    \/ DisassembleRelocated
    \/ DisassembleDeferred
    \/ NextPhase
    \/ DisassembleOrphan
    \/ BuildBasicBlockSet
    \/ BuildCfg
    \/ RecursivePop
    \/ RecursiveSweep
    \/ DisassembleAgain
    \/ DisassembleAfresh
    \/ GetInstruction
    \/ GetBasicBlock
    \/ GetFunction

(***************************************************************************)
(* The images the engine is run on                                         *)
(***************************************************************************)
WritesPC == {"XED_REG_EIP"}

NoOperand ==
    [seg_reg |-> "XED_REG_DS", base_reg |-> XED_REG_INVALID,
     index_reg |-> XED_REG_INVALID, scale |-> 0, displacement |-> 0,
     length |-> 1]

\* ret
RET ==
    [Insn EXCEPT !.category = "XED_CATEGORY_RET",
                 !.iform = "XED_IFORM_RET_NEAR",
                 !.iclass = "XED_ICLASS_RET_NEAR",
                 !.written_registers = WritesPC]

\* nop
NOP == Insn

\* mov ebx, eax
MOV ==
    [Insn EXCEPT !.category = "XED_CATEGORY_DATAXFER",
                 !.iform = "XED_IFORM_MOV_GPRv_GPRv_89",
                 !.iclass = "XED_ICLASS_MOV", !.length = 2]

\* mov al, byte ptr [d] (an operand of length 1) and mov eax, dword ptr [d]
\* (of length 4), in one byte of text
MOVM(d, length) ==
    [Insn EXCEPT !.category = "XED_CATEGORY_DATAXFER",
                 !.iform = "XED_IFORM_MOV_OrAX_MEMv",
                 !.iclass = "XED_ICLASS_MOV",
                 !.memory_operands =
                     <<[NoOperand EXCEPT !.displacement = d,
                                         !.length = length]>>]

\* jz with the relative displacement d
JZ(d) ==
    [Insn EXCEPT !.category = "XED_CATEGORY_COND_BR",
                 !.iform = "XED_IFORM_JZ_RELBRb",
                 !.iclass = "XED_ICLASS_JZ",
                 !.written_registers = WritesPC,
                 !.branch_displacement = d]

\* jmp with the relative displacement d
JMP(d) ==
    [Insn EXCEPT !.category = "XED_CATEGORY_UNCOND_BR",
                 !.iform = "XED_IFORM_JMP_RELBRb",
                 !.iclass = "XED_ICLASS_JMP",
                 !.written_registers = WritesPC,
                 !.branch_displacement = d]

\* call with the relative displacement d
CALL(d) ==
    [Insn EXCEPT !.category = "XED_CATEGORY_CALL",
                 !.iform = "XED_IFORM_CALL_NEAR_RELBRd",
                 !.iclass = "XED_ICLASS_CALL_NEAR",
                 !.written_registers = WritesPC,
                 !.branch_displacement = d]

\* call far ptr: the absolute target d
CALLF(d) ==
    [Insn EXCEPT !.category = "XED_CATEGORY_CALL",
                 !.iform = "XED_IFORM_CALL_FAR_PTRp_IMMw",
                 !.iclass = "XED_ICLASS_CALL_FAR",
                 !.written_registers = WritesPC,
                 !.branch_displacement = d, !.far_xfer = TRUE]

\* The displacement of a relative branch n bytes back from the next
\* instruction, in two's complement
Back(n) == 2 * SignMask - n

\* jmp dword ptr [d], and jmp dword ptr [d + eax*4] where indexed
JMPM(d, indexed) ==
    [Insn EXCEPT !.category = "XED_CATEGORY_UNCOND_BR",
                 !.iform = "XED_IFORM_JMP_MEMv",
                 !.iclass = "XED_ICLASS_JMP",
                 !.written_registers = WritesPC,
                 !.memory_operands =
                     <<[NoOperand EXCEPT
                          !.displacement = d, !.length = 4,
                          !.index_reg = IF indexed THEN "XED_REG_EAX"
                                        ELSE XED_REG_INVALID,
                          !.scale = IF indexed THEN 4 ELSE 0]>>]

\* The sections of the small images: code at [0, 4), data at [6, 8)
SmallSections ==
    <<[start_address |-> 0, end_address |-> 4, flags |-> {"l", "r", "x"}],
      [start_address |-> 6, end_address |-> 8, flags |-> {"l", "r", "w"}]>>

\* The sections of the images with relocations: code at [0, 4), pointers
\* at [8, 16)
RelocSections ==
    <<[start_address |-> 0, end_address |-> 4, flags |-> {"l", "r", "x"}],
      [start_address |-> 8, end_address |-> 16, flags |-> {"l", "r", "w"}]>>

MappedAddresses(sections) ==
    UNION {sections[i].start_address .. (sections[i].end_address - 1) :
             i \in DOMAIN sections}

\* What the loader and the decoder give the engine: the sections, the seed
\* sets, the bytes at the addresses of pointers (0 elsewhere) and the
\* instructions text at the start of the first section (bytes that decode
\* to nothing elsewhere)
Image(sections, entry_points, functions, exit_points, relocations, pointers, text) ==
    [arch |-> "i386", sections |-> sections, entry_points |-> entry_points,
     functions |-> functions, exit_points |-> exit_points,
     relocations |-> relocations,
     bytes |-> [a \in MappedAddresses(sections) |->
                   IF a \in DOMAIN pointers THEN pointers[a] ELSE 0],
     insns |-> [a \in MappedAddresses(sections) |->
                   IF a + 1 \in DOMAIN text THEN text[a + 1] ELSE Invalid]]

\* What the decoder may find at an address of the small images
Menu == {RET, NOP, MOV, MOVM(2, 1), JZ(1), CALL(1), Invalid}

\* The seeds of the small images: the entry points and the declared
\* functions
Seeds == {<<{0}, {}>>, <<{0, 1}, {}>>, <<{0}, {1, 2}>>}

\* Every text of three instructions of Menu and a ret, with each of Seeds
SmallImages ==
    {Image(SmallSections, s[1], s[2], {}, {}, <<>>,
           <<t[0], t[1], t[2], RET>>) :
        s \in Seeds, t \in [0 .. 2 -> Menu]}

\* Images with a far call, whose target no cross reference leads to, and
\* with an exit point
FarCallImages ==
    {Image(SmallSections, {0}, {}, x, {}, <<>>, <<CALLF(2), t, RET, RET>>) :
        x \in {{}, {2}}, t \in {RET, NOP}}

\* Images with relocations: the pointer at 8 leads to the one at 12, which
\* leads to the code at 1 or back to 8
RelocImages ==
    {Image(RelocSections, {0}, {}, {}, {8, 12}, (8 :> 12) @@ (12 :> p),
           <<RET, t, RET, RET>>) :
        p \in {1, 8}, t \in {RET, NOP}}

\* Images with a loop and with a conditional jump to the next instruction
BranchImages ==
    {Image(SmallSections, {0}, {}, {}, {}, <<>>, <<t, NOP, b, RET>>) :
        t \in {NOP, JZ(0)}, b \in {JZ(Back(2)), JMP(Back(2)), JZ(0)}}

\* Images with a jump through a table of two pointers at 8 and 12, the
\* second of which may be the slot of an imported symbol
JumpTableImages ==
    {Image(RelocSections, {0}, {}, x, r, (8 :> p) @@ (12 :> 2),
           <<JMPM(8, i), RET, RET, RET>>) :
        x \in {{}, {12}}, r \in {{}, {8, 12}}, p \in {1, 9},
        i \in BOOLEAN}

\* xor eax, eax
XOR ==
    [Insn EXCEPT !.category = "XED_CATEGORY_LOGICAL",
                 !.iform = "XED_IFORM_XOR_GPRv_GPRv_31",
                 !.iclass = "XED_ICLASS_XOR", !.length = 2]

\* cmp eax, 0
CMP ==
    [Insn EXCEPT !.category = "XED_CATEGORY_BINARY",
                 !.iform = "XED_IFORM_CMP_GPRv_IMMb",
                 !.iclass = "XED_ICLASS_CMP", !.length = 3,
                 !.immediate_width_bits = 8]

\* pop ebx
POP ==
    [Insn EXCEPT !.category = "XED_CATEGORY_POP",
                 !.iform = "XED_IFORM_POP_GPRv_58",
                 !.iclass = "XED_ICLASS_POP"]

\* add byte ptr [eax], al: the two bytes 00 00
ADD ==
    [Insn EXCEPT !.category = "XED_CATEGORY_BINARY",
                 !.iform = "XED_IFORM_ADD_MEMb_GPR8",
                 !.iclass = "XED_ICLASS_ADD", !.length = 2,
                 !.memory_operands =
                     <<[NoOperand EXCEPT !.base_reg = "XED_REG_EAX"]>>]

\* An image whose instructions are those of insns, at the addresses of its
\* domain; the bytes between them decode to nothing
ImageOf(sections, entry_points, relocations, pointers, insns) ==
    [arch |-> "i386", sections |-> sections, entry_points |-> entry_points,
     functions |-> {}, exit_points |-> {}, relocations |-> relocations,
     bytes |-> [a \in MappedAddresses(sections) |->
                   IF a \in DOMAIN pointers THEN pointers[a] ELSE 0],
     insns |-> [a \in MappedAddresses(sections) |->
                   IF a \in DOMAIN insns THEN insns[a] ELSE Invalid]]

\* One executable section, [start, end)
Text(start, end) ==
    [start_address |-> start, end_address |-> end, flags |-> {"l", "r", "x"}]

\* Scenario S1: 0x1000: xor eax, eax; 0x1002: ret
S1Image ==
    ImageOf(<<Text(4096, 4099)>>, {4096}, {}, <<>>,
            (4096 :> XOR) @@ (4098 :> RET))

\* Scenario S2: 0x1000: cmp eax, 0; 0x1003: je 0x1010; 0x1005: ret;
\* 0x1010: ret
S2Image ==
    ImageOf(<<Text(4096, 4113)>>, {4096}, {}, <<>>,
            (4096 :> CMP) @@ (4099 :> [JZ(11) EXCEPT !.length = 2])
              @@ (4101 :> RET) @@ (4112 :> RET))

\* Scenario S3: 0x1000: call 0x1005; 0x1005: pop ebx; 0x1006: ret
S3Image ==
    ImageOf(<<Text(4096, 4103)>>, {4096}, {}, <<>>,
            (4096 :> [CALL(0) EXCEPT !.length = 5]) @@ (4101 :> POP)
              @@ (4102 :> RET))

\* Scenario S6: a run of NUL bytes at 0x1050 that fills its section, which
\* the relocation at 0x1060 points to (the bytes 0x50 0x10 0 0); the
\* executable section that follows the run makes the address after its
\* last instruction executable, which the probe asks of every instruction
S6Image ==
    ImageOf(<<Text(4176, 4180), Text(4180, 4181),
              [start_address |-> 4192, end_address |-> 4196,
               flags |-> {"l", "r", "w"}]>>,
            {}, {4192}, (4192 :> 80) @@ (4193 :> 16),
            (4176 :> ADD) @@ (4178 :> ADD) @@ (4180 :> RET))

ScenarioImages == {S1Image, S2Image, S3Image, S6Image}

\* Images whose first instruction reads the byte at 2, which is the second
\* byte of the mov at 1 or the nop after a nop at 1; 1 is a declared
\* function and the ret at 3 is not the last byte of the section
DataInCodeImages ==
    {Image(<<Text(0, 5)>>, {0}, {1}, {}, {}, <<>>,
           <<MOVM(2, 1), t, NOP, RET, RET>>) : t \in {MOV, NOP}}

\* Images with a jump through a table whose second slot, at 14, has only
\* two of its four bytes in the section, with a jump through a word
\* (jmp word ptr [8 + eax*4], an operand of length 2), and with a table
\* whose first pointer, 20, is in no section
FaultyJumpTableImages ==
    {Image(RelocSections, {0}, {}, {}, {}, (10 :> 1),
           <<JMPM(10, TRUE), RET, RET, RET>>),
     Image(RelocSections, {0}, {}, {}, {}, (8 :> 1),
           <<[JMPM(8, TRUE) EXCEPT !.memory_operands[1].length = 2],
             RET, RET, RET>>),
     Image(RelocSections, {0}, {}, {}, {}, (8 :> 20),
           <<JMPM(8, TRUE), RET, RET, RET>>)}

\* call dword ptr [d], and call dword ptr [d + eax*4] where indexed
CALLM(d, indexed) ==
    [JMPM(d, indexed) EXCEPT !.category = "XED_CATEGORY_CALL",
                             !.iform = "XED_IFORM_CALL_NEAR_MEMv",
                             !.iclass = "XED_ICLASS_CALL_NEAR"]

\* Images with a call through a table of two pointers at 8 and 12: the
\* first leads to the instruction after the call, at 1, or further, and
\* the second may be the slot of an imported symbol
IndirectCallImages ==
    {Image(RelocSections, {0}, {}, x, {}, (8 :> p) @@ (12 :> 2),
           <<CALLM(8, i), NOP, RET, RET>>) :
        x \in {{}, {12}}, p \in {1, 3}, i \in BOOLEAN}

Images ==
    SmallImages \cup FarCallImages \cup RelocImages \cup BranchImages
      \cup JumpTableImages \cup ScenarioImages \cup DataInCodeImages
      \cup FaultyJumpTableImages \cup IndirectCallImages

Init ==
    /\ image \in Images
    /\ shadow = EMShadowMemory(SectionRanges(image))
    /\ code_xrefs = EMGraph
    /\ data_xrefs = EMGraph
    /\ basic_blocks = EmptyMap
    /\ cfg = EMGraph
    /\ decoder = NoDecoder
    /\ pc = "relocations"
    /\ ret = "relocations"
    /\ todo = image.relocations
    /\ scan = 0
    /\ stack = <<>>
    /\ start_address = 0
    /\ error = FALSE
    /\ done = TRUE
    /\ chain = <<>>
    /\ exc = None
    /\ run = "first"
    /\ first = [basic_blocks |-> EmptyMap, edges |-> {}]
    /\ call = NoCall
    /\ decoded = {}
    /\ slots = <<>>

Spec == Init /\ [][Next]_vars

\* A run under weak fairness: the engine goes on while it has a step to take
FairSpec == Spec /\ WF_vars(Next)

(***************************************************************************)
(* Properties of disassemble()                                             *)
(***************************************************************************)
Addresses == CoveredAddresses(shadow)

Marked(address, mark) == mark \subseteq MarksAt(shadow, address)

Completed == pc = "done"

\* C1: after disassemble() completes, no edge of the CFG has a head that is
\* marked FUNCTION, the fall-through edge of a block included.
C1_NoEdgeIntoFunction ==
    Completed => \A e \in get_edges(cfg) : ~Marked(e[2], M_FUNCTION)

\* C2: after disassemble() completes, no covered address is marked both
\* CODE and DATA.
C2_NeverCodeAndData ==
    Completed => \A a \in Addresses : ~Marked(a, M_CODE \cup M_DATA)

\* C3: in every step of disassemble() no address loses a mark and the
\* code and data cross references lose no edge.
C3_Monotone ==
    [][pc # "done" =>
          /\ shadow'.memory_ranges = shadow.memory_ranges
          /\ \A a \in Addresses :
                MarksAt(shadow, a) \subseteq MarksAt(shadow', a)
          /\ get_edges(code_xrefs) \subseteq get_edges(code_xrefs')
          /\ get_edges(data_xrefs) \subseteq get_edges(data_xrefs')]_vars

C3_Witness ==
    /\ Completed
    /\ \E a \in Addresses : Marked(a, M_ANALYZED \cup M_CODE \cup M_FUNCTION)
    /\ \E a \in Addresses : Marked(a, M_DATA)
    /\ get_edges(code_xrefs) # {}
    /\ get_edges(data_xrefs) # {}

\* C4: in every state of a run, the state an error leaves included, an
\* address marked FUNCTION is marked BASIC_BLOCK_LEADER and an address
\* marked BASIC_BLOCK_LEADER is marked HEAD and CODE.
C4_FunctionLeaderHeadCode ==
    \A a \in Addresses :
        /\ Marked(a, M_FUNCTION) => Marked(a, M_BASIC_BLOCK_LEADER)
        /\ Marked(a, M_BASIC_BLOCK_LEADER) => Marked(a, M_HEAD \cup M_CODE)

C4_Witness ==
    /\ pc = "aborted"
    /\ \E a \in Addresses : Marked(a, M_FUNCTION)
    /\ \E a \in Addresses :
          Marked(a, M_BASIC_BLOCK_LEADER) /\ ~Marked(a, M_FUNCTION)

\* C5: disassemble() terminates: every run comes to its end, or to the
\* error that ends it.
C5_Terminates == <>(pc \in {"done", "aborted"})

\* C6: once the decoder has raised in a sweep, the sweep decodes no more:
\* the inner loop is not entered again with the error flag set.
C6_DecodeErrorStopsSweep == ~(pc = "sweep" /\ error)

\* C7: the basic blocks and the CFG edges of a run do not depend on the
\* order in which the seeds are visited: a run of the same image from
\* empty stores ends with those of the first run.
C7_OrderIndependent ==
    (Completed /\ run = "afresh") => Result = first

\* C8: a second disassemble() on the stores the first has left ends with
\* the basic blocks and the CFG edges of the first.
C8_Idempotent ==
    (Completed /\ run = "again") => Result = first

C8_Witness ==
    /\ Completed
    /\ run = "again"
    /\ Cardinality(DOMAIN first.basic_blocks) >= 3
    /\ Cardinality(first.edges) >= 2
    /\ \E a \in Addresses : Marked(a, M_DATA)

\* C9: after disassemble() completes, every address marked
\* BASIC_BLOCK_LEADER is the start address of exactly one basic block.
C9_LeaderStartsOneBlock ==
    Completed =>
        \A a \in Addresses :
            Marked(a, M_BASIC_BLOCK_LEADER) =>
                Cardinality({k \in DOMAIN basic_blocks :
                               basic_blocks[k].start_address = a}) = 1

C9_Witness ==
    /\ Completed
    /\ Cardinality({a \in Addresses : Marked(a, M_BASIC_BLOCK_LEADER)}) >= 3
    /\ \E a \in Addresses :
          /\ Marked(a, M_BASIC_BLOCK_LEADER)
          /\ Marked(a + 1, M_BASIC_BLOCK_LEADER)
          /\ ~Marked(a + 1, M_FUNCTION)

\* C10: in every basic block built, a byte of [start, end) marked ANALYZED
\* is marked CODE, and the instructions are the addresses of [start, end)
\* marked HEAD, in strictly increasing order.
C10_BlockCoverage ==
    \A k \in DOMAIN basic_blocks :
        LET B == basic_blocks[k]
            range == B.start_address .. (B.end_address - 1)
        IN  /\ \A a \in range : Marked(a, M_ANALYZED) => Marked(a, M_CODE)
            /\ {B.instructions[i] : i \in DOMAIN B.instructions}
                   = {a \in range : Marked(a, M_HEAD)}
            /\ \A i, j \in DOMAIN B.instructions :
                   i < j => B.instructions[i] < B.instructions[j]

C10_Witness ==
    /\ Completed
    /\ \E k \in DOMAIN basic_blocks :
          /\ Len(basic_blocks[k].instructions) >= 2
          /\ \E a \in basic_blocks[k].start_address ..
                        (basic_blocks[k].end_address - 1) :
                Marked(a, M_CODE) /\ ~Marked(a, M_HEAD)

\* The instruction the decoder finds at address a
InsnAt(a) == [image.insns[a] EXCEPT !.runtime_address = a]

\* The conditional branches that have been disassembled, their taken
\* target being executable: only disassembling the instruction at a adds
\* code cross references that leave a
ConditionalBranches ==
    {a \in DOMAIN image.insns :
        /\ get_successors(code_xrefs, a) # {}
        /\ image.insns[a].category = "XED_CATEGORY_COND_BR"
        /\ image.insns[a].iform # "XED_IFORM_XEND"
        /\ is_memory_executable(image, get_branch_displacement(InsnAt(a)))}

TakenEdge(a) == <<a, get_branch_displacement(InsnAt(a))>>

NextEdge(a) == <<a, get_next_instruction_address(InsnAt(a))>>

\* The code cross reference e carries the attribute predicate, of value v
PredicateIs(e, v) ==
    /\ e \in DOMAIN code_xrefs._edge_attributes
    /\ "predicate" \in DOMAIN code_xrefs._edge_attributes[e]
    /\ get_edge_attribute(code_xrefs, e, "predicate") = v

TwoSuccessors(a) ==
    /\ get_successors(code_xrefs, a) = {TakenEdge(a)[2], NextEdge(a)[2]}
    /\ Cardinality(get_successors(code_xrefs, a)) = 2
    /\ PredicateIs(TakenEdge(a), TRUE)
    /\ PredicateIs(NextEdge(a), FALSE)

\* C11 as the spec states it: every disassembled conditional branch with
\* an executable taken target has exactly two code cross references, the
\* taken one with predicate true and the other with predicate false.
C11_AlwaysTwoSuccessors == \A a \in ConditionalBranches : TwoSuccessors(a)

\* C11: a disassembled conditional branch whose executable taken target is
\* not the next instruction has exactly two code cross references, the
\* taken one with predicate true and the one to the next instruction with
\* predicate false; where the target is the next instruction there is the
\* one cross reference, with predicate false.
C11_TwoSuccessorsUnlessSame ==
    \A a \in ConditionalBranches :
        IF TakenEdge(a) # NextEdge(a) THEN TwoSuccessors(a)
        ELSE /\ get_successors(code_xrefs, a) = {NextEdge(a)[2]}
             /\ PredicateIs(NextEdge(a), FALSE)

C11_Witness ==
    /\ Completed
    /\ \E a \in ConditionalBranches : TakenEdge(a) # NextEdge(a)
    /\ \E a \in ConditionalBranches : TakenEdge(a) = NextEdge(a)

\* The jumps through memory that have been disassembled: every code cross
\* reference that leaves one was added by the jump table walker
MemoryJumps ==
    {a \in DOMAIN image.insns :
        image.insns[a].iform
          \in {"XED_IFORM_JMP_MEMv", "XED_IFORM_JMP_FAR_MEMp2"}}

\* C12: every code cross reference added by the jump table walker, for the
\* slot of an exit point as for any other slot, leads into an executable
\* section.
C12_JumpTableTargetsExecutable ==
    \A a \in MemoryJumps :
        \A t \in get_successors(code_xrefs, a) :
            is_memory_executable(image, t)

\* The pointer the image holds at address a
PointerAt(a) == unpack(read(image, a, NativeSize(CpuMode(image))))

\* C13: in every state, an address marked RELOCATED_LEAF is the pointer
\* held at the last element of a relocation chain: an address of
\* image.relocations that is mapped and marked RELOCATED and whose pointer
\* is no relocation itself.
C13_LeafEndsChain ==
    \A A \in Addresses :
        Marked(A, M_RELOCATED_LEAF) =>
            \E r \in image.relocations :
                /\ is_memory_mapped(image, r, NativeSize(CpuMode(image)))
                /\ Marked(r, M_RELOCATED)
                /\ PointerAt(r) = A
                /\ A \notin image.relocations

C13_Witness ==
    /\ pc = "relocations"
    /\ \E A \in Addresses :
          /\ Marked(A, M_RELOCATED_LEAF)
          /\ \E h, r \in image.relocations :
                h # r /\ PointerAt(h) = r /\ PointerAt(r) = A

\* C14: a query on the stores of a completed run returns, a result or
\* None, for every address: it raises nothing.
C14_QueriesNeverRaise ==
    call.op \in {"get_instruction", "get_basic_block", "get_function"}
        => call.exc = None

\* The start addresses reachable from those of R along CFG edges whose
\* head is not marked FUNCTION
RECURSIVE ReachableFrom(_)
ReachableFrom(R) ==
    LET more == R \cup {h \in UNION {get_successors(cfg, t) : t \in R} :
                           ~Marked(h, M_FUNCTION)}
    IN  IF more = R THEN R ELSE ReachableFrom(more)

\* C15: get_function(f) on an address marked FUNCTION returns, without
\* duplicates, the basic blocks that start at f or at an address reachable
\* from f along CFG edges whose head is not marked FUNCTION; on a covered
\* address that is not marked FUNCTION it returns None.
C15_GetFunctionReturnsReachable ==
    (call.op = "get_function" /\ Covered(shadow, call.address)) =>
        IF Marked(call.address, M_FUNCTION)
        THEN /\ call.exc = None
             /\ ~call.absent
             /\ \A j, k \in DOMAIN call.value :
                    call.value[j] = call.value[k] => j = k
             /\ ReachableFrom({call.address}) \subseteq DOMAIN basic_blocks
             /\ {call.value[k] : k \in DOMAIN call.value}
                  = {basic_blocks[a] : a \in ReachableFrom({call.address})}
        ELSE call.exc = None /\ call.absent

\* C16: get_basic_block(addr) returns None or a basic block that contains
\* addr.
C16_GetBasicBlockContains ==
    call.op = "get_basic_block" =>
        /\ call.exc = None
        /\ \/ call.absent
           \/ /\ Len(call.value) = 1
              /\ call.value[1].start_address <= call.address
              /\ call.address < call.value[1].end_address

(***************************************************************************)
(* xde/em_shadow_memory.py on its own: a shadow memory is constructed over *)
(* a list of memory ranges and its operations are called on it.            *)
(***************************************************************************)
\* The highest address of a memory range
MaxAddress == 4

\* The longest list of memory ranges
MaxRanges == 3

\* The longest range an operation is called with
MaxLength == 4

\* The number of operations called on a shadow memory
MaxCalls == 2

MemoryRanges == {<<a, b>> : a \in 0 .. MaxAddress, b \in 0 .. MaxAddress}
                  \cap {r \in Int \X Int : r[1] <= r[2]}

MemoryRangeLists == UNION {[1 .. n -> MemoryRanges] : n \in 1 .. MaxRanges}

\* The addresses the operations are called with: one below and one above
\* those a range may hold
CallAddresses == (0 - 1) .. (MaxAddress + 1)

CallLengths == 1 .. MaxLength

\* An image of no section: the shadow memory is used without the engine
NoImage == Image(<<>>, {}, {}, {}, {}, <<>>, <<>>)

\* No shadow memory has been constructed
NoShadow == [memory_ranges |-> <<>>, shadows |-> <<>>]

ShadowInit ==
    /\ image = NoImage
    /\ shadow = NoShadow
    /\ code_xrefs = EMGraph
    /\ data_xrefs = EMGraph
    /\ basic_blocks = EmptyMap
    /\ cfg = EMGraph
    /\ decoder = NoDecoder
    /\ pc = "new"
    /\ ret = "new"
    /\ todo = {}
    /\ scan = 0
    /\ stack = <<>>
    /\ start_address = 0
    /\ error = FALSE
    /\ done = TRUE
    /\ chain = <<>>
    /\ exc = None
    /\ run = "first"
    /\ first = [basic_blocks |-> EmptyMap, edges |-> {}]
    /\ decoded = {}
    /\ slots = <<>>
    /\ \E memory_ranges \in MemoryRangeLists :
          call = [NoCall EXCEPT !.op = "memory_ranges", !.before = memory_ranges]

\* EMShadowMemory(dirname, memory_ranges)
ShadowConstruct ==
    /\ pc = "new"
    /\ shadow' = EMShadowMemory(call.before)
    /\ call' = [call EXCEPT !.op = "__init__"]
    /\ pc' = "shadow"
    /\ UNCHANGED <<image, code_xrefs, data_xrefs, basic_blocks, cfg, decoder,
                   ret, todo, scan, stack, start_address, error, done, chain,
                   exc, run, first, decoded, slots>>

\* An operation that may write the marks has been called: st is what it
\* has left, the exception it raised included
Called(op, address, length, mark, st) ==
    /\ shadow' = st.shadow
    /\ call' = [NoCall EXCEPT !.op = op, !.address = address,
                              !.length = length, !.mark = mark,
                              !.exc = st.exc, !.before = shadow,
                              !.n = call.n + 1]
    /\ UNCHANGED <<image, code_xrefs, data_xrefs, basic_blocks, cfg, decoder,
                   pc, ret, todo, scan, stack, start_address, error, done,
                   chain, exc, run, first, decoded, slots>>

\* A query of the marks has been called: count is what it returned, where
\* _get_shadow_memory_coordinates() has not raised
Queried(op, address, length, mark, covered, count) ==
    /\ call' = [NoCall EXCEPT !.op = op, !.address = address,
                              !.length = length, !.mark = mark,
                              !.exc = IF covered THEN None
                                      ELSE "RuntimeError",
                              !.count = IF covered THEN count ELSE 0,
                              !.before = shadow, !.n = call.n + 1]
    /\ UNCHANGED <<image, shadow, code_xrefs, data_xrefs, basic_blocks, cfg,
                   decoder, pc, ret, todo, scan, stack, start_address, error,
                   done, chain, exc, run, first, decoded, slots>>

CanCall == pc = "shadow" /\ call.n < MaxCalls

CallMarkAsCode ==
    /\ CanCall
    /\ \E address \in CallAddresses, length \in CallLengths :
          Called("mark_as_code", address, length, M_CODE,
                 mark_as_code(St, address, length))

CallMarkAsData ==
    /\ CanCall
    /\ \E address \in CallAddresses, length \in CallLengths :
          Called("mark_as_data", address, length, M_DATA,
                 mark_as_data(St, address, length))

CallMark ==
    /\ CanCall
    /\ \E address \in CallAddresses :
          Called("_mark", address, 1, M_CODE, _mark(St, address, M_CODE))

CallUnmark ==
    /\ CanCall
    /\ \E address \in CallAddresses :
          Called("_unmark", address, 1, M_CODE, _unmark(St, address, M_CODE))

CallIsMarked ==
    /\ CanCall
    /\ \E address \in CallAddresses :
          Queried("_is_marked", address, 1, M_CODE,
                  Covered(shadow, address),
                  IF _is_marked(shadow, address, M_CODE) THEN 1 ELSE 0)

CallMarkRange ==
    /\ CanCall
    /\ \E address \in CallAddresses, length \in CallLengths :
          Called("_mark_range", address, length, M_CODE,
                 _mark_range(St, address, length, M_CODE))

CallUnmarkRange ==
    /\ CanCall
    /\ \E address \in CallAddresses, length \in CallLengths :
          Called("_unmark_range", address, length, M_CODE,
                 _unmark_range(St, address, length, M_CODE))

CallIsMarkedRange ==
    /\ CanCall
    /\ \E address \in CallAddresses, length \in CallLengths :
          Queried("_is_marked_range", address, length, M_CODE,
                  Covered(shadow, address),
                  _is_marked_range(shadow, address, length, M_CODE))

ShadowNext ==
    \/ ShadowConstruct
    \/ CallMarkAsCode
    \/ CallMarkAsData
    \/ CallMark
    \/ CallUnmark
    \/ CallIsMarked
    \/ CallMarkRange
    \/ CallUnmarkRange
    \/ CallIsMarkedRange

ShadowSpec == ShadowInit /\ [][ShadowNext]_vars

(***************************************************************************)
(* Properties of the shadow memory                                         *)
(***************************************************************************)
\* The addresses a call is asked to touch
Touched == call.address .. (call.address + call.length - 1)

\* Some range of the shadow memory holds all of the addresses S
InsideOneRange(sh, S) ==
    \E i \in DOMAIN sh.memory_ranges :
        S \subseteq sh.memory_ranges[i][1] .. sh.memory_ranges[i][2]

\* What mark_as_code() and mark_as_data() are said to add to the mark byte
\* of address a
SaidToAdd(a) ==
    IF a = call.address THEN M_HEAD \cup call.mark
    ELSE IF a \in Touched THEN call.mark
    ELSE M_NONE

\* C17: mark_as_code(addr, len), with [addr, addr + len) inside one shadow
\* range, sets HEAD and CODE on addr, CODE on exactly addr + 1 ..
\* addr + len - 1, and changes the mark byte of no other address;
\* mark_as_data(addr, len) does the same with DATA.
C17_MarksExactlyTheRange ==
    (/\ call.op \in {"mark_as_code", "mark_as_data"}
     /\ InsideOneRange(call.before, Touched))
    => /\ call.exc = None
       /\ \A a \in CoveredAddresses(shadow) :
             MarksAt(shadow, a) = MarksAt(call.before, a) \cup SaidToAdd(a)

\* C18: _is_marked_range(addr, len, bits) returns the number k, 0 <= k <= len,
\* of leading bytes carrying all of bits: each of addr .. addr + k - 1 carries
\* them, and k = len or addr + k does not carry them.
C18_CountsLeadingBytes ==
    (call.op = "_is_marked_range" /\ Covered(shadow, call.address))
    => /\ call.exc = None
       /\ call.count \in 0 .. call.length
       /\ \A a \in call.address .. (call.address + call.count - 1) :
             call.mark \subseteq MarksAt(shadow, a)
       /\ \/ call.count = call.length
          \/ ~(call.mark \subseteq MarksAt(shadow, call.address + call.count))

\* The addresses of a list of ranges
UnionOf(memory_ranges) ==
    UNION {memory_ranges[i][1] .. memory_ranges[i][2] :
             i \in DOMAIN memory_ranges}

\* C19: the merged range list of the constructor is sorted, covers exactly
\* the union of the input ranges, and no two of its ranges overlap or are
\* contiguous.
C19_MergedIsMinimumCover ==
    call.op = "__init__"
    => LET merged == shadow.memory_ranges
       IN  /\ \A i, j \in DOMAIN merged : i < j => merged[i][1] <= merged[j][1]
           /\ UnionOf(merged) = UnionOf(call.before)
           /\ \A i, j \in DOMAIN merged :
                 i < j => merged[i][2] + 1 < merged[j][1]

\* The operations of the shadow memory on one address and on a range
ShadowOperations ==
    {"_mark", "_unmark", "_is_marked",
     "_mark_range", "_unmark_range", "_is_marked_range"}

\* C20: an operation asked to touch an address that no shadow range covers,
\* a range operation whose [addr, addr + len) runs past the end of the
\* covering range included, fails and changes no mark byte.
C20_UncoveredAddressFails ==
    (/\ call.op \in ShadowOperations
     /\ \E a \in Touched : ~Covered(call.before, a))
    => /\ call.exc # None
       /\ shadow = call.before

(***************************************************************************)
(* Properties of the marks, the scenarios and the probe                    *)
(***************************************************************************)
\* The bytes of the instruction decoded at address i
InsnBytes(i) == i .. (i + image.insns[i].length - 1)

\* C21: after disassemble(), an address marked HEAD is the first byte of an
\* instruction the engine decoded or of a data element it marked, and lies
\* strictly inside no decoded instruction.
C21_HeadOnFirstBytesOnly ==
    Completed =>
        \A a \in Addresses :
            Marked(a, M_HEAD) =>
                /\ a \in decoded \/ Marked(a, M_DATA)
                /\ \A i \in decoded : a \in InsnBytes(i) => a = i

\* The addresses marked FUNCTION
Functions == {a \in Addresses : Marked(a, M_FUNCTION)}

\* The near calls with a relative displacement that have been decoded and
\* whose target is the instruction that follows them
CallsToNext ==
    {a \in decoded :
        /\ image.insns[a].iform \in {"XED_IFORM_CALL_NEAR_RELBRz",
                                     "XED_IFORM_CALL_NEAR_RELBRd"}
        /\ get_branch_displacement(InsnAt(a))
             = get_next_instruction_address(InsnAt(a))}

\* C22: a near direct call to its own next instruction adds the code cross
\* reference to the next instruction and no other, and marks its target
\* neither FUNCTION nor BASIC_BLOCK_LEADER; for the image of S3 the
\* functions are {0x1000} and there is one basic block, which starts at
\* 0x1000.
C22_CallNextMarksNothing ==
    /\ \A a \in CallsToNext :
          get_successors(code_xrefs, a)
              = {get_next_instruction_address(InsnAt(a))}
    /\ image = S3Image =>
          /\ ~Marked(4101, M_FUNCTION)
          /\ ~Marked(4101, M_BASIC_BLOCK_LEADER)
          /\ Completed => /\ Functions = {4096}
                          /\ DOMAIN basic_blocks = {4096}
                          /\ get_successors(code_xrefs, 4096) = {4101}

C22_Witness == Completed /\ image = S3Image /\ 4096 \in CallsToNext

\* C23 as the spec states it: for the image of S1 the one basic block is
\* [0x1000, 0x1002).
C23_S1BlockEndsAtRet ==
    (Completed /\ image = S1Image) =>
        /\ DOMAIN basic_blocks = {4096}
        /\ basic_blocks[4096].start_address = 4096
        /\ basic_blocks[4096].end_address = 4098
        /\ Functions = {4096}
        /\ get_edges(cfg) = {}

\* C23: for the image of S1, disassemble() gives one basic block,
\* [0x1000, 0x1003): it ends after the ret, a byte long at 0x1002; the
\* functions are {0x1000} and the CFG has no edge.
C23_S1OneBlock ==
    (Completed /\ image = S1Image) =>
        /\ DOMAIN basic_blocks = {4096}
        /\ basic_blocks[4096].start_address = 4096
        /\ basic_blocks[4096].end_address = 4099
        /\ Functions = {4096}
        /\ get_edges(cfg) = {}

C23_Witness == Completed /\ image = S1Image /\ decoded = {4096, 4098}

\* C24: for the image of S2, disassemble() gives the basic blocks that
\* start at 0x1000, 0x1005 and 0x1010, and the CFG holds the edges
\* (0x1000, 0x1005), with predicate false, and (0x1000, 0x1010), with
\* predicate true, and no other.
C24_S2BlocksAndEdges ==
    (Completed /\ image = S2Image) =>
        /\ DOMAIN basic_blocks = {4096, 4101, 4112}
        /\ get_edges(cfg) = {<<4096, 4101>>, <<4096, 4112>>}
        /\ "predicate" \in DOMAIN cfg._edge_attributes[<<4096, 4101>>]
        /\ get_edge_attribute(cfg, <<4096, 4101>>, "predicate") = FALSE
        /\ "predicate" \in DOMAIN cfg._edge_attributes[<<4096, 4112>>]
        /\ get_edge_attribute(cfg, <<4096, 4112>>, "predicate") = TRUE

(***************************************************************************)
(* simple_graph.py and the attributes of xde/em_graph.py on their own: a   *)
(* SimpleGraph (in cfg) and an EMGraph (in code_xrefs) are constructed     *)
(* and their operations are called.                                        *)
(*                                                                         *)
(* The name of a node of a SimpleGraph is a tuple of one integer, so that  *)
(* a name and an edge, a pair of names, compare as Python compares them:   *)
(* they differ.                                                            *)
(***************************************************************************)
\* The highest vertex of a graph
MaxVertex == 2

\* The number of operations called on the graphs
MaxGraphCalls == 4

\* SimpleGraph.__init__
SimpleGraph ==
    [nodes |-> {}, edges |-> {}, outgoing |-> EmptyMap, incoming |-> EmptyMap]

\* d[k] on a collections.defaultdict(set): a missing key is added
Touch(d, k) == IF k \in DOMAIN d THEN d ELSE Put(d, k, {})

add_node(g, name) == [g EXCEPT !.nodes = @ \cup {name}]

\* The loops discard from the edges each element of outgoing[name] and of
\* incoming[name]: these are names of nodes
del_node(g, name) ==
    LET outgoing == Touch(g.outgoing, name)
        edges1 == g.edges \ outgoing[name]
        incoming == Touch(g.incoming, name)
        edges2 == edges1 \ incoming[name]
    IN  [nodes |-> g.nodes \ {name}, edges |-> edges2,
         outgoing |-> Del(outgoing, name), incoming |-> Del(incoming, name)]

\* SimpleGraph.add_edge
simple_add_edge(g, edge) ==
    LET src == edge[1]
        dst == edge[2]
    IN  [nodes |-> g.nodes \cup {src, dst},
         edges |-> g.edges \cup {edge},
         outgoing |-> [Touch(g.outgoing, src) EXCEPT ![src] = @ \cup {dst}],
         incoming |-> [Touch(g.incoming, dst) EXCEPT ![dst] = @ \cup {src}]]

del_edge(g, edge) ==
    LET src == edge[1]
        dst == edge[2]
        outgoing1 == [Touch(g.outgoing, src) EXCEPT ![src] = @ \ {dst}]
        incoming1 == [Touch(g.incoming, dst) EXCEPT ![dst] = @ \ {src}]
        incoming2 == IF outgoing1[src] = {} THEN Touch(incoming1, src)
                     ELSE incoming1
        nodes1 == IF outgoing1[src] = {} /\ incoming2[src] = {}
                  THEN g.nodes \ {src} ELSE g.nodes
        outgoing2 == Touch(outgoing1, dst)
        nodes2 == IF outgoing2[dst] = {} /\ incoming2[dst] = {}
                  THEN nodes1 \ {dst} ELSE nodes1
    IN  [nodes |-> nodes2, edges |-> g.edges \ {edge},
         outgoing |-> outgoing2, incoming |-> incoming2]

\* _remove_attribute(): [attributes, exc, absent, value], value holding
\* the previous value where there is one; del subject_attributes[name]
\* raises KeyError where the subject has no attribute of that name
_remove_attribute(attributes, subject, name) ==
    IF subject \notin DOMAIN attributes
    THEN [attributes |-> attributes, exc |-> None, absent |-> TRUE,
          value |-> <<>>]
    ELSE IF name \notin DOMAIN attributes[subject]
    THEN [attributes |-> attributes, exc |-> "KeyError", absent |-> TRUE,
          value |-> <<>>]
    ELSE [attributes |-> Put(attributes, subject,
                             Del(attributes[subject], name)),
          exc |-> None, absent |-> FALSE,
          value |-> <<attributes[subject][name]>>]

add_vertex_attribute(g, vertex, name, value) ==
    [g EXCEPT !._vertex_attributes = _add_attribute(@, vertex, name, value)]

remove_vertex_attribute(g, vertex, name) ==
    LET r == _remove_attribute(g._vertex_attributes, vertex, name)
    IN  [r EXCEPT !.attributes = [g EXCEPT !._vertex_attributes = r.attributes]]

remove_edge_attribute(g, edge, name) ==
    LET r == _remove_attribute(g._edge_attributes, edge, name)
    IN  [r EXCEPT !.attributes = [g EXCEPT !._edge_attributes = r.attributes]]

\* The names of the nodes of the SimpleGraph and its edges
Names == {<<n>> : n \in 1 .. MaxVertex}

NamedEdges == Names \X Names

\* The vertices of the EMGraph, its edges, and the attributes
Vertices == 1 .. MaxVertex

Edges == Vertices \X Vertices

AttributeNames == {"predicate", "weight"}

AttributeValues == {0, 1}

GraphInit ==
    /\ image = NoImage
    /\ shadow = NoShadow
    /\ code_xrefs = EMGraph
    /\ data_xrefs = EMGraph
    /\ basic_blocks = EmptyMap
    /\ cfg = SimpleGraph
    /\ decoder = NoDecoder
    /\ pc = "graph"
    /\ ret = "graph"
    /\ todo = {}
    /\ scan = 0
    /\ stack = <<>>
    /\ start_address = 0
    /\ error = FALSE
    /\ done = TRUE
    /\ chain = <<>>
    /\ exc = None
    /\ run = "first"
    /\ first = [basic_blocks |-> EmptyMap, edges |-> {}]
    /\ decoded = {}
    /\ slots = <<>>
    /\ call = NoCall

\* An operation of the SimpleGraph has been called on the node n, or on
\* the edge from n to m, and has left the graph g
CalledSimple(op, n, m, g) ==
    /\ pc = "graph"
    /\ call.n < MaxGraphCalls
    /\ cfg' = g
    /\ call' = [NoCall EXCEPT !.op = op, !.address = n, !.length = m,
                              !.before = cfg, !.n = call.n + 1]
    /\ UNCHANGED <<image, shadow, code_xrefs, data_xrefs, basic_blocks,
                   decoder, pc, ret, todo, scan, stack, start_address, error,
                   done, chain, exc, run, first, decoded, slots>>

\* An operation of the EMGraph has been called on the vertex n, or on the
\* edge from n to m, with the attribute name, and r is what it has left
\* and returned
CalledEM(op, n, m, name, r) ==
    /\ pc = "graph"
    /\ call.n < MaxGraphCalls
    /\ code_xrefs' = r.attributes
    /\ call' = [NoCall EXCEPT !.op = op, !.address = n, !.length = m,
                              !.mark = {name}, !.exc = r.exc,
                              !.absent = r.absent, !.value = r.value,
                              !.before = code_xrefs, !.n = call.n + 1]
    /\ UNCHANGED <<image, shadow, data_xrefs, basic_blocks, cfg, decoder, pc,
                   ret, todo, scan, stack, start_address, error, done, chain,
                   exc, run, first, decoded, slots>>

\* What an operation that returns nothing has left
Left(g) == [attributes |-> g, exc |-> None, absent |-> TRUE, value |-> <<>>]

AddNode == \E n \in Names : CalledSimple("add_node", n[1], 0, add_node(cfg, n))

DelNode == \E n \in Names : CalledSimple("del_node", n[1], 0, del_node(cfg, n))

SimpleAddEdge ==
    \E e \in NamedEdges :
        CalledSimple("add_edge", e[1][1], e[2][1], simple_add_edge(cfg, e))

DelEdge ==
    \E e \in NamedEdges :
        CalledSimple("del_edge", e[1][1], e[2][1], del_edge(cfg, e))

AddVertex ==
    \E v \in Vertices :
        CalledEM("add_vertex", v, 0, "", Left(add_vertex(code_xrefs, v)))

AddEdge ==
    \E e \in Edges :
        CalledEM("add_edge", e[1], e[2], "", Left(add_edge(code_xrefs, e)))

AddVertexAttribute ==
    \E v \in Vertices, name \in AttributeNames, value \in AttributeValues :
        CalledEM("add_vertex_attribute", v, 0, name,
                 Left(add_vertex_attribute(code_xrefs, v, name, value)))

AddEdgeAttribute ==
    \E e \in Edges, name \in AttributeNames, value \in AttributeValues :
        CalledEM("add_edge_attribute", e[1], e[2], name,
                 Left(add_edge_attribute(code_xrefs, e, name, value)))

RemoveVertexAttribute ==
    \E v \in Vertices, name \in AttributeNames :
        CalledEM("remove_vertex_attribute", v, 0, name,
                 remove_vertex_attribute(code_xrefs, v, name))

RemoveEdgeAttribute ==
    \E e \in Edges, name \in AttributeNames :
        CalledEM("remove_edge_attribute", e[1], e[2], name,
                 remove_edge_attribute(code_xrefs, e, name))

GraphNext ==
    \/ AddNode
    \/ DelNode
    \/ SimpleAddEdge
    \/ DelEdge
    \/ AddVertex
    \/ AddEdge
    \/ AddVertexAttribute
    \/ AddEdgeAttribute
    \/ RemoveVertexAttribute
    \/ RemoveEdgeAttribute

GraphSpec == GraphInit /\ [][GraphNext]_vars

\* The attributes of the subject of the last call, before it
AttributesBefore ==
    LET attributes == IF call.op = "remove_vertex_attribute"
                      THEN call.before._vertex_attributes
                      ELSE call.before._edge_attributes
        subject == IF call.op = "remove_vertex_attribute"
                   THEN call.address
                   ELSE <<call.address, call.length>>
    IN  IF subject \in DOMAIN attributes THEN attributes[subject]
        ELSE EmptyMap

\* C25: remove_vertex_attribute(v, name) and remove_edge_attribute(e, name)
\* raise nothing and return the previous value of the attribute if one was
\* set and None otherwise; where none was set, on a vertex or edge that
\* exists too, they leave the graph as it was.
C25_RemoveAttributeReturnsPrevious ==
    call.op \in {"remove_vertex_attribute", "remove_edge_attribute"} =>
        /\ call.exc = None
        /\ \A name \in call.mark :
              IF name \in DOMAIN AttributesBefore
              THEN ~call.absent /\ call.value = <<AttributesBefore[name]>>
              ELSE call.absent /\ code_xrefs = call.before

\* C26: del_node(n) removes n with its incoming and outgoing edges:
\* afterwards n is no node, no edge has n for an endpoint, and n is in no
\* set of outgoing or incoming neighbours.
C26_DelNodeRemovesEdges ==
    call.op = "del_node" =>
        LET n == <<call.address>>
        IN  /\ n \notin cfg.nodes
            /\ \A e \in cfg.edges : e[1] # n /\ e[2] # n
            /\ \A m \in DOMAIN cfg.outgoing : n \notin cfg.outgoing[m]
            /\ \A m \in DOMAIN cfg.incoming : n \notin cfg.incoming[m]

\* _is_code(a) is called in this step, for the function or the relocated
\* leaf a, and calls the probe
Probed(a) ==
    /\ \/ pc = "functions" /\ a \in todo /\ a \notin todo'
       \/ pc = "relocated" /\ RelocatedCandidates # {}
          /\ a = Min(RelocatedCandidates)
    /\ Covered(shadow, a)
    /\ is_marked_as_data(shadow, a, 1) = 0
    /\ is_memory_executable(image, a)

\* C27: the probe is read-only on every outcome: over a step that calls
\* it the cursor of the decoder is what it was, no cross reference has
\* changed, and the marks are those before the step but for the mark its
\* caller sets on the candidate after a probe that succeeded.
C27_ProbeIsReadOnly ==
    [][\A a \in todo \cup ExecutableAddresses(image) :
          Probed(a) =>
              /\ decoder' = decoder
              /\ code_xrefs' = code_xrefs
              /\ data_xrefs' = data_xrefs
              /\ shadow' = IF ~_do_linear_sweep_disassembly(image, shadow, a)
                           THEN shadow
                           ELSE IF pc = "functions"
                           THEN mark_as_function(St, a).shadow
                           ELSE mark_as_basic_block_leader(St, a).shadow]_vars

\* A probe of the candidate on the stack has just succeeded, after the
\* decoder was used, and its loop had moved the cursor
C27_Witness ==
    /\ pc = "pop"
    /\ ret \in {"functions", "relocated"}
    /\ Len(stack) = 1
    /\ ~is_marked_as_analyzed(shadow, stack[1])
    /\ decoder # NoDecoder
    /\ decoder # LinearSweepCursorLeft(image, shadow, decoder, stack[1])

\* This step handles the candidate a of _disassemble_functions() or of
\* _disassemble_relocated()
Candidate(a) ==
    \/ pc = "functions" /\ a \in todo /\ a \notin todo'
    \/ pc = "relocated" /\ RelocatedCandidates # {}
       /\ a = Min(RelocatedCandidates)

\* The candidate a is not code: it is not executable, or is marked as
\* data, or the probe fails or the classifier rejects what it decoded
NotCode(a) ==
    \/ ~Covered(shadow, a)
    \/ ~is_memory_executable(image, a)
    \/ is_marked_as_data(shadow, a, 1) # 0
    \/ ~_do_linear_sweep_disassembly(image, shadow, a)

\* C28: a candidate of phase 3 or 4 that fails _is_code() emits nothing:
\* the step that handles it sets no mark and adds no cross reference.
C28_FailingCandidateEmitsNothing ==
    [][\A a \in todo \cup ExecutableAddresses(image) :
          Candidate(a) /\ NotCode(a) =>
              /\ shadow' = shadow
              /\ code_xrefs' = code_xrefs
              /\ data_xrefs' = data_xrefs]_vars

\* Scenario S6: the relocated leaf 0x1050 has been handled and the
\* classifier has rejected it
C28_Witness ==
    /\ image = S6Image
    /\ pc = "relocated"
    /\ scan = 4177
    /\ is_marked_as_relocated_leaf(shadow, 4176)
    /\ is_memory_executable(image, 4176)
    /\ is_marked_as_data(shadow, 4176, 1) = 0
    /\ ~LinearSweepLoop(image, shadow, DecoderAt(image, 4176), <<>>).error
    /\ ~_is_code(image, shadow, 4176)

\* The candidates _is_code() is about to be asked of and calls the probe
\* for
ProbeCandidates ==
    {a \in todo \cup ExecutableAddresses(image) :
        /\ \/ pc = "functions" /\ a \in todo
           \/ pc = "relocated" /\ RelocatedCandidates # {}
              /\ a = Min(RelocatedCandidates)
        /\ Covered(shadow, a)
        /\ is_marked_as_data(shadow, a, 1) = 0
        /\ is_memory_executable(image, a)}

\* The instructions the probe decodes from a
ProbeInsns(a) == LinearSweepLoop(image, shadow, DecoderAt(image, a), <<>>).insns

\* C29: the probe returns false whenever any byte of any instruction it
\* decodes, not only the first byte of the instruction, is marked as data.
C29_ProbeFailsOnAnyDataByte ==
    \A a \in ProbeCandidates :
        (\E k \in DOMAIN ProbeInsns(a) :
            \E b \in InsnBytes(ProbeInsns(a)[k].runtime_address) :
                Covered(shadow, b) /\ _is_marked(shadow, b, M_DATA))
        => ~_do_linear_sweep_disassembly(image, shadow, a)

\* The flow-control instructions disassembled so far whose memory operand
\* has a mapped displacement: those the jump-table walker has run for
Walkers ==
    {a \in decoded :
        /\ get_program_counter_name(CpuMode(image))
             \in image.insns[a].written_registers
        /\ image.insns[a].memory_operands # <<>>
        /\ is_memory_mapped(image, image.insns[a].memory_operands[1].displacement, 1)}

\* The slots the walker has read for the instruction at a, in order
Walk(a) == SelectSeq(slots, LAMBDA s : s[1] = a)

\* The pointer in the slot
Pointer(slot, length) ==
    unpack(ElementBytes(read(image, slot, length), length))

\* The guards on the element of a slot: a length that has a format, the
\* slot relocated and the pointer a relocated leaf where the image has
\* relocations, and the pointer in an executable section
GuardsPass(slot, length) ==
    /\ length \in {4, 6, 8, 10}
    /\ is_relocatable(image) => is_marked_as_relocated(shadow, slot)
    /\ read(image, slot, length) # <<>>
    /\ is_relocatable(image) =>
           (Covered(shadow, Pointer(slot, length))
            /\ is_marked_as_relocated_leaf(shadow, Pointer(slot, length)))
    /\ is_memory_executable(image, Pointer(slot, length))

\* C30: the walker reads the slots D, D + scale, D + 2 * scale, ... in that
\* order; for each slot that is no exit point and whose element passes the
\* guards it adds the code cross reference to the element and marks it as
\* a basic block leader; it stops at the first slot whose element fails a
\* guard and adds nothing for it; without an index register it reads at
\* most one slot; and it ends, at such a slot or where the memory ends.
\* (An exception _get_jump_table_element() raises at a slot ends the walk
\* at that slot as well, and disassemble() with it; a call has, beside the
\* cross references of the walker, the one to the instruction after it.)
C30_WalkerReadsSlotsInOrder ==
    \A a \in Walkers :
        LET W == Walk(a)
            op == image.insns[a].memory_operands[1]
            Exit(k) == W[k][2] \in image.exit_points
            Good(k) == Exit(k) \/ GuardsPass(W[k][2], op.length)
            Target(k) == IF Exit(k) THEN W[k][2]
                         ELSE Pointer(W[k][2], op.length)
        IN  /\ Len(W) >= 1
            /\ \A k \in 1 .. Len(W) :
                  W[k][2] = op.displacement + (k - 1) * op.scale
            /\ \A k \in 1 .. Len(W) - 1 : Good(k)
            /\ op.index_reg = XED_REG_INVALID => Len(W) = 1
            /\ get_successors(code_xrefs, a)
                 = {Target(k) : k \in {j \in 1 .. Len(W) : Good(j)}}
                     \cup (IF image.insns[a].category = "XED_CATEGORY_CALL"
                           THEN {a + image.insns[a].length} ELSE {})
            /\ \A k \in 1 .. Len(W) :
                  Good(k) /\ ~Exit(k) =>
                      is_marked_as_basic_block_leader(shadow, Target(k))
            /\ \/ ~Good(Len(W))
               \/ op.index_reg = XED_REG_INVALID
               \/ ~is_memory_mapped(image,
                                    op.displacement + Len(W) * op.scale, 1)

\* A walk with an index register has stopped at its first slot, whose
\* pointer leads to data, though the element of the next slot passes the
\* guards
C30_Witness ==
    \E a \in Walkers :
        LET op == image.insns[a].memory_operands[1]
        IN  /\ pc = "done"
            /\ op.index_reg # XED_REG_INVALID
            /\ Walk(a) = <<<<a, op.displacement>>>>
            /\ op.displacement \notin image.exit_points
            /\ ~GuardsPass(op.displacement, op.length)
            /\ GuardsPass(op.displacement + op.scale, op.length)
            /\ get_successors(code_xrefs, a) = {}

(***************************************************************************)
(* Properties of the jump tables, the calls, the branches and the graphs   *)
(***************************************************************************)
\* C31: _get_jump_table_element(address, length) raises nothing for a
\* mapped address: for each slot the walker has read that is no exit
\* point, it returns None where the length is none of 4, 6, 8, 10 and
\* where the pointer is in no executable section, and it returns the
\* pointer only where every guard holds.
C31_JumpTableElementNeverRaises ==
    \A k \in DOMAIN slots :
        LET slot == slots[k][2]
            length == image.insns[slots[k][1]].memory_operands[1].length
            r == _get_jump_table_element(image, shadow, slot, length)
        IN  slot \notin image.exit_points =>
                /\ r.exc = None
                /\ length \notin {4, 6, 8, 10} => r.element = NoAddress
                /\ r.element # NoAddress =>
                       /\ GuardsPass(slot, length)
                       /\ r.element = Pointer(slot, length)

\* The calls through memory
IndirectCalls ==
    {a \in DOMAIN image.insns :
        image.insns[a].iform \in {"XED_IFORM_CALL_NEAR_MEMv",
                                  "XED_IFORM_CALL_FAR_MEMp2"}}

\* What the resolution of the memory operand of the instruction at a has
\* added to its successors: the exit points among the slots read and the
\* pointers that passed the guards
Resolved(a) ==
    LET length == image.insns[a].memory_operands[1].length
    IN  {IF Walk(a)[k][2] \in image.exit_points THEN Walk(a)[k][2]
         ELSE Pointer(Walk(a)[k][2], length) :
           k \in {j \in DOMAIN Walk(a) :
                    \/ Walk(a)[j][2] \in image.exit_points
                    \/ GuardsPass(Walk(a)[j][2], length)}}

\* The addresses marked as functions
FunctionMarks == {x \in Addresses : Marked(x, M_FUNCTION)}

\* C32: the step that disassembles a call through memory at ra marks as
\* functions exactly the successors the resolution of its memory operand
\* has added; the address after the call, whose edge is added afterwards,
\* is not marked on account of the call unless it is one of them.
C32_IndirectCallMarksResolved ==
    [][\A ra \in (decoded' \ decoded) \cap IndirectCalls :
          exc' = None =>
              /\ Resolved(ra)' \subseteq FunctionMarks'
              /\ FunctionMarks' \ FunctionMarks \subseteq Resolved(ra)'
              /\ get_successors(code_xrefs', ra)
                   = Resolved(ra)' \cup {ra + image.insns[ra].length}]_vars

\* A call through a table of two slots has been disassembled: its callees
\* 3 and 2 are functions and the instruction after it, at 1, is not
C32_Witness ==
    /\ 0 \in decoded \cap IndirectCalls
    /\ Resolved(0) = {2, 3}
    /\ get_successors(code_xrefs, 0) = {1, 2, 3}
    /\ Marked(2, M_FUNCTION) /\ Marked(3, M_FUNCTION)
    /\ ~Marked(1, M_FUNCTION)

\* The unconditional branches
UnconditionalBranches ==
    {a \in DOMAIN image.insns :
        image.insns[a].category = "XED_CATEGORY_UNCOND_BR"}

\* The address after the instruction at a
NextAddress(a) == a + image.insns[a].length

BranchDisplacement(a) ==
    get_branch_displacement([image.insns[a] EXCEPT !.runtime_address = a])

\* The targets of the unconditional jump at a: its displacement where
\* that is executable, for the direct forms, and what the resolution of
\* its memory operand gives for the forms with a memory operand
JumpTargets(a) ==
    IF image.insns[a].iform \in {"XED_IFORM_JMP_MEMv",
                                 "XED_IFORM_JMP_FAR_MEMp2"}
    THEN Resolved(a)
    ELSE IF is_memory_executable(image, BranchDisplacement(a))
    THEN {BranchDisplacement(a)}
    ELSE {}

LeaderMarks == {x \in Addresses : Marked(x, M_BASIC_BLOCK_LEADER)}

\* C33 as stated: the step that disassembles an unconditional branch at ra
\* never adds the cross reference from ra to the next address, never marks
\* the next address as a basic block leader, and ends the linear walk.
C33_UnconditionalNeverReachesNext ==
    [][\A ra \in (decoded' \ decoded) \cap UnconditionalBranches :
          exc' = None =>
              /\ NextAddress(ra) \notin get_successors(code_xrefs', ra)
              /\ NextAddress(ra) \notin LeaderMarks' \ LeaderMarks
              /\ pc' = "pop"]_vars

\* C33: an unconditional branch gets no fall-through edge: the step that
\* disassembles it at ra leaves ra with its targets for successors, marks
\* the next address as a basic block leader only where it is one of the
\* targets, and ends the linear walk.
C33_UnconditionalHasNoFallThrough ==
    [][\A ra \in (decoded' \ decoded) \cap UnconditionalBranches :
          exc' = None =>
              /\ get_successors(code_xrefs', ra) = JumpTargets(ra)'
              /\ NextAddress(ra) \in LeaderMarks' \ LeaderMarks
                     => NextAddress(ra) \in JumpTargets(ra)'
              /\ pc' = "pop"]_vars

\* A jump back has been disassembled: the executable address after it is
\* no successor of it and no basic block leader, and the walk has ended
C33_Witness ==
    \E ra \in decoded \cap UnconditionalBranches :
        /\ pc = "pop"
        /\ is_memory_executable(image, NextAddress(ra))
        /\ get_successors(code_xrefs, ra) = {ra - 1}
        /\ ~Marked(NextAddress(ra), M_BASIC_BLOCK_LEADER)
        /\ ~is_marked_as_analyzed(shadow, NextAddress(ra))

\* The address a is a relocated leaf and a basic block leader that no code
\* cross reference leads to
Unreferenced(a) ==
    /\ Marked(a, M_RELOCATED_LEAF)
    /\ Marked(a, M_BASIC_BLOCK_LEADER)
    /\ get_predecessors(code_xrefs, a) = {}

\* C34: after disassemble(), every address of an executable section that
\* is a relocated leaf and a basic block leader without predecessors is
\* marked as a function, and the step of _disassemble_orphan() marks as
\* functions only addresses that are so when it runs.
C34_OrphansPromoted ==
    /\ [](Completed =>
            \A a \in ExecutableAddresses(image) :
                Unreferenced(a) => Marked(a, M_FUNCTION))
    /\ [][pc = "orphan" =>
            FunctionMarks' \ FunctionMarks
              \subseteq {a \in ExecutableAddresses(image) : Unreferenced(a)}]_vars

\* disassemble() has ended with a function that the orphan phase promoted:
\* a relocated leaf without predecessors that is no entry point and no
\* declared function, beside a relocated leaf that a jump leads to
C34_Witness ==
    /\ Completed
    /\ \E a \in ExecutableAddresses(image) :
          /\ Unreferenced(a)
          /\ Marked(a, M_FUNCTION)
          /\ a \notin image.entry_points \cup image.functions

(***************************************************************************)
(* xde/instruction.py: get_branch_displacement() on decoded instructions.  *)
(* The decoder hands over one instruction, a direct branch with any raw    *)
(* displacement, at any address, of any length, far or near, in either     *)
(* mode; the operation is then applied to it and call keeps its result.    *)
(***************************************************************************)
\* The raw displacements reach below zero and past the width of the masks
MaxDisplacement == 4 * SignMask

Displacements == (0 - 2 * SignMask) .. MaxDisplacement

Modes == {X86_MODE_PROTECTED_32BIT, X86_MODE_PROTECTED_64BIT}

Branches ==
    {[t EXCEPT !.branch_displacement = d, !.runtime_address = a,
               !.length = l, !.far_xfer = f] :
        t \in {JMP(0), CALL(0)}, d \in Displacements, a \in {0, 16, 200},
        l \in {2, 5}, f \in BOOLEAN}

InstructionInit ==
    /\ image = NoImage
    /\ shadow = NoShadow
    /\ code_xrefs = EMGraph
    /\ data_xrefs = EMGraph
    /\ basic_blocks = EmptyMap
    /\ cfg = SimpleGraph
    /\ decoder = NoDecoder
    /\ pc = "instruction"
    /\ ret = "instruction"
    /\ todo = {}
    /\ scan = 0
    /\ stack = <<>>
    /\ start_address = 0
    /\ error = FALSE
    /\ done = TRUE
    /\ chain = <<>>
    /\ exc = None
    /\ run = "first"
    /\ first = [basic_blocks |-> EmptyMap, edges |-> {}]
    /\ decoded = {}
    /\ slots = <<>>
    /\ \E insn \in Branches, mode \in Modes :
          call = [NoCall EXCEPT !.op = "decode", !.before = insn,
                                !.mark = mode]

GetBranchDisplacement ==
    /\ pc = "instruction"
    /\ call.op = "decode"
    /\ call' = [call EXCEPT !.op = "get_branch_displacement",
                            !.value = <<get_branch_displacement(call.before)>>]
    /\ UNCHANGED <<image, shadow, code_xrefs, data_xrefs, basic_blocks, cfg,
                   decoder, pc, ret, todo, scan, stack, start_address, error,
                   done, chain, exc, run, first, decoded, slots>>

InstructionNext == GetBranchDisplacement

InstructionSpec == InstructionInit /\ [][InstructionNext]_vars

\* The low DisplacementBits bits of d read as a signed integer
Signed(d) ==
    LET low == d % (2 * SignMask)
    IN  IF low >= SignMask THEN low - 2 * SignMask ELSE low

\* C35: the absolute branch displacement of an instruction that is no far
\* transfer is the address of the next instruction plus the low bits of
\* the raw displacement read as a signed integer, in either mode; that of
\* a far transfer is the raw displacement.
C35_BranchDisplacementSignExtended ==
    call.op = "get_branch_displacement" =>
        LET insn == call.before
            d == insn.branch_displacement
        IN  call.value =
              <<IF insn.far_xfer THEN d
                ELSE insn.runtime_address + insn.length + Signed(d)>>

\* A near branch of the 64-bit mode whose raw displacement has bits above
\* the width of the masks and the sign bit set has been resolved, to an
\* address below that of the next instruction
C35_Witness ==
    /\ call.op = "get_branch_displacement"
    /\ call.mark = X86_MODE_PROTECTED_64BIT
    /\ ~call.before.far_xfer
    /\ call.before.branch_displacement > 2 * SignMask
    /\ Signed(call.before.branch_displacement) < 0
    /\ call.value[1] < get_next_instruction_address(call.before)

(***************************************************************************)
(* xde/em_graph.py: the structure of the EMGraph under add_vertex(),       *)
(* add_edge(), remove_edge(), remove_vertex() and                          *)
(* remove_orphan_vertices() alone. A dictionary read hands out a copy of   *)
(* the stored set, and keys() the keys as they are before the loop runs.   *)
(***************************************************************************)
\* remove_edge() that keeps the attributes of the edge
remove_edge_keeping_attributes(g, edge) ==
    LET tail == edge[1]
        head == edge[2]
    IN  IF tail \in DOMAIN g._graph /\ head \in DOMAIN g._graph
           /\ head \in g._graph[tail]
        THEN Left([g EXCEPT !._graph[tail] = @ \ {head},
                            !._transpose_graph[head] = @ \ {tail}])
        ELSE Left(g)

remove_edge(g, edge) ==
    LET tail == edge[1]
        head == edge[2]
    IN  IF tail \in DOMAIN g._graph /\ head \in DOMAIN g._graph
           /\ head \in g._graph[tail]
        THEN LET g1 == [g EXCEPT !._graph[tail] = @ \ {head}]
             IN  IF head \notin DOMAIN g1._transpose_graph
                 THEN [Left(g1) EXCEPT !.exc = "KeyError"]
                 ELSE LET g2 == [g1 EXCEPT
                                   !._transpose_graph[head] = @ \ {tail}]
                      IN  IF edge \notin DOMAIN g2._edge_attributes
                          THEN [Left(g2) EXCEPT !.exc = "KeyError"]
                          ELSE Left([g2 EXCEPT
                                       !._edge_attributes = Del(@, edge)])
        ELSE Left(g)

\* The first loop of remove_vertex(), over the successors that are left
RECURSIVE RemoveOutgoing(_, _, _)
RemoveOutgoing(g, vertex, successors) ==
    IF successors = <<>> THEN Left(g)
    ELSE LET successor == Head(successors)
         IN  IF successor \notin DOMAIN g._transpose_graph
             THEN [Left(g) EXCEPT !.exc = "KeyError"]
             ELSE LET g1 == [g EXCEPT !._transpose_graph[successor] =
                                          @ \ {vertex}]
                  IN  IF <<vertex, successor>>
                            \notin DOMAIN g1._edge_attributes
                      THEN [Left(g1) EXCEPT !.exc = "KeyError"]
                      ELSE RemoveOutgoing(
                               [g1 EXCEPT !._edge_attributes =
                                              Del(@, <<vertex, successor>>)],
                               vertex, Tail(successors))

\* The second loop of remove_vertex(), over the predecessors that are left
RECURSIVE RemoveIncoming(_, _, _)
RemoveIncoming(g, vertex, predecessors) ==
    IF predecessors = <<>> THEN Left(g)
    ELSE LET predecessor == Head(predecessors)
         IN  IF predecessor \notin DOMAIN g._graph
             THEN [Left(g) EXCEPT !.exc = "KeyError"]
             ELSE LET g1 == [g EXCEPT !._graph[predecessor] = @ \ {vertex}]
                  IN  IF <<predecessor, vertex>>
                            \notin DOMAIN g1._edge_attributes
                      THEN [Left(g1) EXCEPT !.exc = "KeyError"]
                      ELSE RemoveIncoming(
                               [g1 EXCEPT !._edge_attributes =
                                              Del(@, <<predecessor, vertex>>)],
                               vertex, Tail(predecessors))

remove_vertex(g, vertex) ==
    IF vertex \notin DOMAIN g._graph THEN Left(g)
    ELSE LET r1 == RemoveOutgoing(g, vertex, SetToSeq(g._graph[vertex]))
             g1 == r1.attributes
         IN  IF r1.exc # None THEN r1
             ELSE IF vertex \notin DOMAIN g1._transpose_graph
             THEN [Left(g1) EXCEPT !.exc = "KeyError"]
             ELSE LET r2 == RemoveIncoming(
                                g1, vertex,
                                SetToSeq(g1._transpose_graph[vertex]))
                      g2 == r2.attributes
                  IN  IF r2.exc # None THEN r2
                      ELSE IF vertex \notin DOMAIN g2._vertex_attributes
                      THEN [Left([g2 EXCEPT
                                    !._graph = Del(@, vertex),
                                    !._transpose_graph = Del(@, vertex)])
                              EXCEPT !.exc = "KeyError"]
                      ELSE Left([g2 EXCEPT
                                   !._graph = Del(@, vertex),
                                   !._transpose_graph = Del(@, vertex),
                                   !._vertex_attributes = Del(@, vertex)])

\* The loop of remove_orphan_vertices(), over the keys that are left
RECURSIVE RemoveOrphans(_, _)
RemoveOrphans(g, keys) ==
    IF keys = <<>> THEN Left(g)
    ELSE LET vertex == Head(keys)
         IN  IF vertex \notin DOMAIN g._graph
             THEN [Left(g) EXCEPT !.exc = "KeyError"]
             ELSE IF g._graph[vertex] # {}
             THEN RemoveOrphans(g, Tail(keys))
             ELSE IF vertex \notin DOMAIN g._transpose_graph
             THEN [Left(g) EXCEPT !.exc = "KeyError"]
             ELSE IF g._transpose_graph[vertex] # {}
             THEN RemoveOrphans(g, Tail(keys))
             ELSE IF vertex \notin DOMAIN g._vertex_attributes
             THEN [Left([g EXCEPT !._graph = Del(@, vertex),
                                  !._transpose_graph = Del(@, vertex)])
                     EXCEPT !.exc = "KeyError"]
             ELSE RemoveOrphans(
                      [g EXCEPT !._graph = Del(@, vertex),
                                !._transpose_graph = Del(@, vertex),
                                !._vertex_attributes = Del(@, vertex)],
                      Tail(keys))

remove_orphan_vertices(g) == RemoveOrphans(g, SetToSeq(DOMAIN g._graph))

RemoveEdge ==
    \E e \in Edges :
        CalledEM("remove_edge", e[1], e[2], "", remove_edge(code_xrefs, e))

RemoveVertex ==
    \E v \in Vertices :
        CalledEM("remove_vertex", v, 0, "", remove_vertex(code_xrefs, v))

RemoveOrphanVertices ==
    CalledEM("remove_orphan_vertices", 0, 0, "",
             remove_orphan_vertices(code_xrefs))

StructureNext ==
    \/ AddVertex
    \/ AddEdge
    \/ RemoveEdge
    \/ RemoveVertex
    \/ RemoveOrphanVertices

StructureSpec == GraphInit /\ [][StructureNext]_vars

\* The edges of the forward adjacency of the EMGraph g
ForwardEdges(g) ==
    {<<u, v>> \in (DOMAIN g._graph) \X Vertices : v \in g._graph[u]}

\* The edges of the transpose adjacency of the EMGraph g, tail first
TransposeEdges(g) ==
    {<<u, v>> \in Vertices \X (DOMAIN g._transpose_graph) :
        u \in g._transpose_graph[v]}

\* C36: after any sequence of add_vertex(), add_edge(), remove_edge(),
\* remove_vertex() and remove_orphan_vertices(), self-loops and repeated
\* adds included, the forward and the transpose adjacency hold the same
\* edges, both tables and the table of the vertex attributes have the same
\* keys, and the table of the edge attributes has an entry for exactly the
\* edges that are present; none of the operations raises.
C36_TablesAgree ==
    /\ call.exc = None
    /\ ForwardEdges(code_xrefs) = TransposeEdges(code_xrefs)
    /\ DOMAIN code_xrefs._graph = DOMAIN code_xrefs._transpose_graph
    /\ DOMAIN code_xrefs._graph = DOMAIN code_xrefs._vertex_attributes
    /\ ForwardEdges(code_xrefs) \subseteq
         (DOMAIN code_xrefs._graph) \X (DOMAIN code_xrefs._graph)
    /\ DOMAIN code_xrefs._edge_attributes = ForwardEdges(code_xrefs)

\* remove_vertex() has removed a vertex that had a self-loop, an edge to
\* another vertex and an edge from it, and has left that vertex an orphan
C36_Witness ==
    /\ call.op = "remove_vertex"
    /\ LET v == call.address
       IN  /\ v \in DOMAIN call.before._graph
           /\ v \in call.before._graph[v]
           /\ \E w \in Vertices \ {v} :
                 /\ w \in call.before._graph[v]
                 /\ v \in call.before._graph[w]
                 /\ w \in DOMAIN code_xrefs._graph
                 /\ code_xrefs._graph[w] = {}
                 /\ code_xrefs._transpose_graph[w] = {}
           /\ v \notin DOMAIN code_xrefs._graph

(***************************************************************************)
(* Properties of the relocation chains, the CFG and the marks of a run     *)
(***************************************************************************)
\* C37: the tracing of the relocation chains terminates for every image,
\* cyclic chains included: the recursion of _analyze_relocation() comes to
\* its end by itself, never by the recursion limit of the interpreter,
\* whose RuntimeError ends disassemble().
C37_RelocationTracingTerminates ==
    ~(pc = "aborted" /\ chain # <<>> /\ exc = "RuntimeError")

\* C38: after disassemble(), every vertex of the CFG, the tail and the head
\* of every edge, is the start address of a basic block of the basic block
\* map, the head of a fall-through edge (B.start, B.end) included.
C38_VerticesAreBlockStarts ==
    Completed =>
        \A e \in get_edges(cfg) :
            e[1] \in DOMAIN basic_blocks /\ e[2] \in DOMAIN basic_blocks

\* C39: when disassemble() returns, every byte of every instruction that
\* the recursive disassembly decoded is marked ANALYZED, and no address of
\* an executable section is marked BASIC_BLOCK_LEADER without ANALYZED.
C39_DecodedBytesAnalyzed ==
    Completed =>
        /\ \A ra \in decoded :
              \A b \in InsnBytes(ra) :
                  b \in Addresses /\ Marked(b, M_ANALYZED)
        /\ \A a \in ExecutableAddresses(image) \cap Addresses :
              Marked(a, M_BASIC_BLOCK_LEADER) => Marked(a, M_ANALYZED)

====
